---- MODULE Spec2Model ----
(***************************************************************************)
(* State-machine model of the history collector of the SEPA IoT platform   *)
(* (src/data_fetcher.py, src/Data_Parser_Examples.py).                     *)
(*                                                                         *)
(* One run of fetch_full_history for one catalogued device is modelled.    *)
(* The suspension points of the run are its network calls, so one action   *)
(* covers the code from one response to the next request (or to the exit   *)
(* of the function).                                                       *)
(*                                                                         *)
(* Time is counted in whole seconds.  A Python datetime is the record      *)
(* [t, aware]: its instant and whether it carries a tzinfo.  Python        *)
(* refuses to compare or subtract an aware and a naive datetime            *)
(* (TypeError); the model keeps that.                                      *)
(***************************************************************************)
EXTENDS Integers, Sequences, FiniteSets, TLC

\* ------------------------------------------------------------------ bounds
\* Longest batch the modelled server returns.
MaxBatchLen == 2
\* Most records the modelled server lets a run accumulate.
MaxRecords == 2
\* Batch requests the server of the detailed specification answers; the
\* server of the long-run specification answers all of them.
MaxRequests == 3

\* ------------------------------------------------------- program constants
\* Seconds per day (the unit of timedelta(days=...)).
Day == 86400
\* while ... batch_count < 100
BatchCap == 100
\* ts += timedelta(days=14)
SkipDays == 14
\* start_time = end_time - timedelta(days=365)
DefaultWindowDays == 365

\* --------------------------------------------------------------- datetimes
Instant(t, aware) == [t |-> t, aware |-> aware]

\* a < b, a - b, max(a, b) are defined only for two aware or two naive values.
Comparable(a, b) == a.aware = b.aware

\* datetime + timedelta(seconds=n) keeps the tzinfo.
PlusSeconds(a, n) == [a EXCEPT !.t = a.t + n]

\* Variant that counts a started day as a whole one.
DaysOfStarted(seconds) == (seconds + Day - 1) \div Day

\* timedelta.days: the whole days of a difference, rounded down.
DaysOf(seconds) == seconds \div Day

\* ------------------------------------------------------- timestamp strings
\* A value found where a timestamp string is expected:
\*   shape "missing"  the key is absent
\*         "null"     JSON null (None)
\*         "number"   a non-zero JSON number (not a string)
\*         "empty"    ""
\*         "garbage"  a string no stage of the parser accepts
\*         "iso"      YYYY-MM-DDTHH:MM:SS[.f...][Z|+00:00]; sec is its instant,
\*                    frac the number of fractional digits, zone "Z", "off"
\*                    (a +00:00 offset) or "none"
\*         "badfrac"  YYYY-MM-DDTHH:MM:SS.xyz[Z|+00:00]: what follows the dot
\*                    is no run of digits
TsValue(shape, sec, frac, zone) ==
    [shape |-> shape, sec |-> sec, frac |-> frac, zone |-> zone]

TsMissing == TsValue("missing", 0, 0, "none")
TsNull == TsValue("null", 0, 0, "none")
TsNumber == TsValue("number", 0, 0, "none")
TsEmpty == TsValue("empty", 0, 0, "none")
TsGarbage == TsValue("garbage", 0, 0, "none")
IsoZ(sec) == TsValue("iso", sec, 0, "Z")
IsoNaive(sec) == TsValue("iso", sec, 0, "none")

NoHit == [hit |-> FALSE, t |-> 0, aware |-> FALSE]
Hit(t, aware) == [hit |-> TRUE, t |-> t, aware |-> aware]

\* datetime.fromisoformat(timestamp_str.replace("Z", "+00:00")).  Before
\* Python 3.11 fromisoformat takes 0, 3 or 6 fractional digits only; from
\* 3.11 on (lenient) it takes any number of them.
StageStrict(s, lenient) ==
    IF s.shape = "iso" /\ (lenient \/ s.frac \in {0, 3, 6})
    THEN Hit(s.sec, s.zone # "none")
    ELSE NoHit

\* The regex wants a fraction and a zone; the fraction is cut or padded to 6.
StageFraction(s) ==
    IF s.shape = "iso" /\ s.frac >= 1 /\ s.zone # "none"
    THEN Hit(s.sec, TRUE)
    ELSE NoHit

\* The string has a dot with the seconds in front of it.
HasDot(s) == (s.shape = "iso" /\ s.frac >= 1) \/ s.shape = "badfrac"

\* base = text before the first '.', zone appended again: base + 'Z' parses
\* on a lenient build only and its tzinfo is then removed
\* (.replace(tzinfo=None)); base + '+hh:mm' keeps the offset.  Without a dot
\* the base still holds the zone and the sum does not parse.
StageBaseZone(s, lenient) ==
    IF HasDot(s) /\ s.zone = "Z" /\ lenient
    THEN Hit(s.sec, FALSE)
    ELSE IF HasDot(s) /\ s.zone = "off"
    THEN Hit(s.sec, TRUE)
    ELSE NoHit

\* re.sub strips "[.digits]+hh:mm" or a final "Z" (not the fraction before
\* it), then strptime('%Y-%m-%dT%H:%M:%S').
StageNaive(s) ==
    IF s.shape = "iso" /\ (s.frac = 0 \/ s.zone = "off")
    THEN Hit(s.sec, FALSE)
    ELSE NoHit

\* Variant whose last stage lets its ValueError out.
ParseRaisesOnGarbage(s) == s.shape \in {"number", "garbage"}

\* parse_timestamp_robust raises (AttributeError: no .replace) on a truthy
\* value that is not a string; a missing key never reaches it.
ParseRaises(s) == s.shape = "number"

\* parse_timestamp_robust on a value it does not raise on; now is the reading
\* of the wall clock, a naive datetime.
ParseTimestampRobust(s, now, lenient) ==
    IF s.shape \in {"null", "empty"} THEN Instant(now, FALSE)
    ELSE LET a == StageStrict(s, lenient)
             b == StageFraction(s)
             c == StageBaseZone(s, lenient)
             d == StageNaive(s)
         IN  IF a.hit THEN Instant(a.t, a.aware)
             ELSE IF b.hit THEN Instant(b.t, b.aware)
             ELSE IF c.hit THEN Instant(c.t, c.aware)
             ELSE IF d.hit THEN Instant(d.t, d.aware)
             ELSE Instant(now, FALSE)

\* Whether that call reads the wall clock (datetime.now()).
UsesClock(s, lenient) ==
    \/ s.shape \in {"null", "empty"}
    \/ ~(\/ StageStrict(s, lenient).hit
          \/ StageFraction(s).hit
          \/ StageBaseZone(s, lenient).hit
          \/ StageNaive(s).hit)

\* The Python builds the collector runs on: fromisoformat lenient or not.
Builds == BOOLEAN

\* What parse_timestamp_robust can return for s at wall-clock reading now.
Normalized(s, now) == {ParseTimestampRobust(s, now, l) : l \in Builds}

\* ---------------------------------------------------------------- payloads
\* A Payload value of a received record: absent, or a string that is the hex
\* text of bytes (hex = TRUE) or is no hex text at all.
PayloadValue(present, hex, bytes) ==
    [present |-> present, hex |-> hex, bytes |-> bytes]

\* struct 'h': big-endian signed 16 bit.
I16(hi, lo) ==
    LET u == hi * 256 + lo IN IF u >= 32768 THEN u - 65536 ELSE u

\* struct 'b': signed 8 bit.
I8(b) == IF b >= 128 THEN b - 256 ELSE b

\* struct 'l': big-endian signed 32 bit (the sign sits in the upper half).
I32(b0, b1, b2, b3) == I16(b0, b1) * 65536 + (b2 * 256 + b3)

\* round(raw / 1000.0, 2) in hundredths, for a raw value that is a whole
\* number of hundredths or is not halfway between two of them.
RoundMilliToCenti(raw) ==
    LET q == raw \div 10
        r == raw % 10
    IN  IF r >= 5 THEN q + 1 ELSE q

Decoded(fields) == [kind |-> "list", fields |-> fields, text |-> ""]
ErrorDict(text) == [kind |-> "error", fields |-> <<>>, text |-> text]
NoteDict == [kind |-> "note", fields |-> <<>>, text |-> "unparsed/short payload"]

\* An EmptyDistance of the catalog, or the emptyDist a decoder is given:
\* None (or no such key), an integer, or a string (form "text": the decimal
\* text of v; "blank": empty or white space; "bad": no integer text).
NoDistance == [given |-> FALSE, v |-> 0, form |-> "none"]
Distance(v) == [given |-> TRUE, v |-> v, form |-> "int"]
DistanceText(v) == [given |-> TRUE, v |-> v, form |-> "text"]
BlankDistance == [given |-> TRUE, v |-> 0, form |-> "blank"]
BadDistance == [given |-> TRUE, v |-> 0, form |-> "bad"]

\* Variant that takes the reference distance from the raw distance.
ParseECHOdataReversed(payload, emptyDist) ==
    IF ~payload.hex \/ Len(payload.bytes) # 10
    THEN [raised |-> TRUE, fields |-> <<>>]
    ELSE LET b == payload.bytes
             intDist == I16(b[1], b[2])
         IN  [raised |-> FALSE,
              fields |-> <<IF emptyDist.given THEN intDist - emptyDist.v
                                              ELSE intDist,
                           I16(b[3], b[4]), RoundMilliToCenti(I16(b[5], b[6])),
                           I16(b[7], b[8]), I16(b[9], b[10])>>]

\* parseECHOdata: level in mm, temperatures and battery in hundredths.
\* bytes.fromhex raises on text that is no hex, struct.unpack(">hhhhh") on any
\* length other than 10; raised stands for both.
ParseECHOdata(payload, emptyDist) ==
    IF ~payload.hex \/ Len(payload.bytes) # 10
    THEN [raised |-> TRUE, fields |-> <<>>]
    ELSE LET b == payload.bytes
             intDist == I16(b[1], b[2])
             intTemp == I16(b[3], b[4])
             intBatt == I16(b[5], b[6])
             intWaterTemp == I16(b[7], b[8])
             intStatus == I16(b[9], b[10])
             fltLevel == IF emptyDist.given THEN emptyDist.v - intDist
                                            ELSE intDist
         IN  [raised |-> FALSE,
              fields |-> <<fltLevel, intTemp, RoundMilliToCenti(intBatt),
                           intWaterTemp, intStatus>>]

\* struct 'H': big-endian unsigned 16 bit.
U16(hi, lo) == hi * 256 + lo

\* round(n / d) for d > 0, halves upwards (Python rounds the binary value
\* next to a half either way; the modelled inputs keep off the halves).
RoundDiv(n, d) == (2 * n + d) \div (2 * d)

\* A float that may be None.
Null == [null |-> TRUE, v |-> 0]
Val(v) == [null |-> FALSE, v |-> v]

\* What a decoder does: it raises, or returns its list of fields.
Raised == [raised |-> TRUE, fields |-> <<>>]
Returned(fields) == [raised |-> FALSE, fields |-> fields]

\* Variant that scales the battery like the temperatures (by 100).
ParseDROPLETdataBattCenti(payload) ==
    IF ~payload.hex \/ Len(payload.bytes) # 16
    THEN Raised
    ELSE LET b == payload.bytes
         IN  Returned(<<I16(b[1], b[2]), I32(b[3], b[4], b[5], b[6]),
                        I16(b[7], b[8]), I16(b[9], b[10]), I16(b[11], b[12]),
                        42 * I16(b[13], b[14]), I16(b[15], b[16])>>)

\* Variant that reads the pressure from the lower half of its four bytes.
ParseDROPLETdataShortPress(payload) ==
    IF ~payload.hex \/ Len(payload.bytes) # 16
    THEN Raised
    ELSE LET b == payload.bytes
         IN  Returned(<<I16(b[1], b[2]), I16(b[5], b[6]),
                        I16(b[7], b[8]), 10 * I16(b[9], b[10]),
                        I16(b[11], b[12]), 42 * I16(b[13], b[14]),
                        I16(b[15], b[16])>>)

\* parseDROPLETdata: struct.unpack(">hlhhhhh") wants exactly 16 bytes.
\* Temperatures, pressure, humidity, battery and rainfall in hundredths.
ParseDROPLETdata(payload) ==
    IF ~payload.hex \/ Len(payload.bytes) # 16
    THEN Raised
    ELSE LET b == payload.bytes
             intTemp == I16(b[1], b[2])
             intPress == I32(b[3], b[4], b[5], b[6])
             intHumid == I16(b[7], b[8])
             intBatt == I16(b[9], b[10])
             intRTCTemp == I16(b[11], b[12])
             intRain == I16(b[13], b[14])
             intStatus == I16(b[15], b[16])
         IN  Returned(<<intTemp, intPress, intHumid, 10 * intBatt,
                        intRTCTemp, 42 * intRain, intStatus>>)

\* The calibration of the soil moisture, in hundredths of a percent, for a
\* raw value of n / d: round((((3.879 / 10000) * raw) - 0.6956) * 100, 2).
VWC(n, d) == RoundDiv(3879 * n, 1000 * d) - 6956

\* parseHYGROdata: struct.unpack(">HHhHHHH") wants exactly 14 bytes; rawVWC
\* is intVWC / 10.
ParseHYGROdata(payload) ==
    IF ~payload.hex \/ Len(payload.bytes) # 14
    THEN Raised
    ELSE LET b == payload.bytes
             intVWC == U16(b[1], b[2])
             soilTempRaw == U16(b[3], b[4])
             intEC == I16(b[5], b[6])
             airTempRaw == U16(b[7], b[8])
             humidRaw == U16(b[9], b[10])
             battRaw == U16(b[11], b[12])
             intStatus == U16(b[13], b[14])
         IN  Returned(<<VWC(intVWC, 10), soilTempRaw, intEC, airTempRaw,
                        humidRaw, RoundMilliToCenti(battRaw), intStatus>>)

\* Variant that blanks the temperature only at the sentinel.
ParseHydroRangerPayloadHumidKept(strPayload, emptyDist) ==
    IF ~strPayload.hex \/ Len(strPayload.bytes) # 13
    THEN Raised
    ELSE LET b == strPayload.bytes
             given == emptyDist.given
             intTemp == I16(b[8], b[9])
         IN  Returned(<<I8(b[1]),
                        IF given THEN emptyDist.v - I16(b[2], b[3]) ELSE I16(b[2], b[3]),
                        IF given THEN emptyDist.v - I16(b[6], b[7]) ELSE I16(b[4], b[5]),
                        IF given THEN emptyDist.v - I16(b[4], b[5]) ELSE I16(b[6], b[7]),
                        IF intTemp # -777 THEN Val(intTemp) ELSE Null,
                        Val(I16(b[10], b[11]))>>)

\* Variant that keeps minimum and maximum in place under a reference
\* distance.
ParseHydroRangerPayloadNoSwap(strPayload, emptyDist) ==
    IF ~strPayload.hex \/ Len(strPayload.bytes) # 13
    THEN Raised
    ELSE LET b == strPayload.bytes
             given == emptyDist.given
             intTemp == I16(b[8], b[9])
         IN  Returned(<<I8(b[1]),
                        IF given THEN emptyDist.v - I16(b[2], b[3]) ELSE I16(b[2], b[3]),
                        IF given THEN emptyDist.v - I16(b[4], b[5]) ELSE I16(b[4], b[5]),
                        IF given THEN emptyDist.v - I16(b[6], b[7]) ELSE I16(b[6], b[7]),
                        IF intTemp # -777 THEN Val(intTemp) ELSE Null,
                        IF intTemp # -777 THEN Val(I16(b[10], b[11])) ELSE Null>>)

\* parseHydroRangerPayload: struct.unpack(">bhhhhhh") wants exactly 13
\* bytes.  Levels in mm, temperature and humidity in hundredths or None.
ParseHydroRangerPayload(strPayload, emptyDist) ==
    IF ~strPayload.hex \/ Len(strPayload.bytes) # 13
    THEN Raised
    ELSE LET b == strPayload.bytes
             boolSens == I8(b[1])
             intAvg == I16(b[2], b[3])
             intMin == I16(b[4], b[5])
             intMax == I16(b[6], b[7])
             intTemp == I16(b[8], b[9])
             intHumid == I16(b[10], b[11])
             intLevelAvg == IF emptyDist.given THEN emptyDist.v - intAvg
                                               ELSE intAvg
             intLevelMax == IF emptyDist.given THEN emptyDist.v - intMin
                                               ELSE intMax
             intLevelMin == IF emptyDist.given THEN emptyDist.v - intMax
                                               ELSE intMin
             fltTemp == IF intTemp # -777 THEN Val(intTemp) ELSE Null
             fltHumid == IF intTemp # -777 THEN Val(intHumid) ELSE Null
         IN  Returned(<<boolSens, intLevelAvg, intLevelMin, intLevelMax,
                        fltTemp, fltHumid>>)

\* The characters of a Theta text, by their ASCII codes.
IsSign(c) == c = 43 \/ c = 45
IsDigit(c) == c >= 48 /\ c <= 57
IsBody(c) == IsDigit(c) \/ c = 46

\* The longest run of [\d.] at the head of text.
RECURSIVE BodyRun(_)
BodyRun(text) ==
    IF text = <<>> \/ ~IsBody(Head(text)) THEN <<>>
    ELSE <<Head(text)>> \o BodyRun(Tail(text))

\* re.findall(r'[+-][\d.]+', ascii_str): the matches from left to right,
\* none overlapping.
RECURSIVE FindTokens(_)
FindTokens(text) ==
    IF text = <<>> THEN <<>>
    ELSE LET run == BodyRun(Tail(text))
         IN  IF IsSign(Head(text)) /\ run # <<>>
             THEN <<(<<Head(text)>> \o run)>>
                    \o FindTokens(SubSeq(text, Len(run) + 2, Len(text)))
             ELSE FindTokens(Tail(text))

\* A decimal number: mant / 10^frac.
Dec(mant, frac) == [mant |-> mant, frac |-> frac]

RECURSIVE Pow10(_)
Pow10(k) == IF k = 0 THEN 1 ELSE 10 * Pow10(k - 1)

\* The digits of a token body read as one integer, the dots left out.
RECURSIVE DigitsValue(_, _)
DigitsValue(body, acc) ==
    IF body = <<>> THEN acc
    ELSE IF Head(body) = 46 THEN DigitsValue(Tail(body), acc)
    ELSE DigitsValue(Tail(body), 10 * acc + (Head(body) - 48))

\* float(m) of a token: it raises ValueError on more than one dot and on a
\* token without a digit.
FloatRaises(tok) ==
    LET body == Tail(tok)
    IN  \/ Cardinality({i \in 1..Len(body) : body[i] = 46}) > 1
        \/ \A i \in 1..Len(body) : body[i] = 46

FloatOf(tok) ==
    LET body == Tail(tok)
        dots == {i \in 1..Len(body) : body[i] = 46}
        frac == IF dots = {} THEN 0 ELSE Len(body) - (CHOOSE i \in dots : TRUE)
        mag == DigitsValue(body, 0)
    IN  Dec(IF Head(tok) = 45 THEN -mag ELSE mag, frac)

\* Variant that takes the first three of more than three tokens.
ParseThetaPayloadAtLeastThree(hex_str) ==
    IF ~hex_str.hex \/ \E i \in 1..Len(hex_str.bytes) : hex_str.bytes[i] > 127
    THEN Raised
    ELSE LET matches == FindTokens(hex_str.bytes)
         IN  IF \/ Len(matches) < 3
                \/ \E i \in 1..3 : FloatRaises(matches[i])
             THEN Raised
             ELSE LET rawVWC == FloatOf(matches[1])
                  IN  Returned(<<VWC(rawVWC.mant, Pow10(rawVWC.frac)),
                                 FloatOf(matches[2]), FloatOf(matches[3])>>)

\* parseThetaPayload: bytes.fromhex(hex_str).decode('ascii') raises on text
\* that is no hex and on a byte above 127; the unpacking into three names
\* raises unless findall gave exactly three tokens.
ParseThetaPayload(hex_str) ==
    IF ~hex_str.hex \/ \E i \in 1..Len(hex_str.bytes) : hex_str.bytes[i] > 127
    THEN Raised
    ELSE LET matches == FindTokens(hex_str.bytes)
         IN  IF \/ Len(matches) # 3
                \/ \E i \in 1..Len(matches) : FloatRaises(matches[i])
             THEN Raised
             ELSE LET rawVWC == FloatOf(matches[1])
                  IN  Returned(<<VWC(rawVWC.mant, Pow10(rawVWC.frac)),
                                 FloatOf(matches[2]), FloatOf(matches[3])>>)

\* empty_dist_int of parse_payload: None stays None, a string is int(text)
\* or None when blank, anything else is int(value); int raises on text that
\* is no integer.
EmptyDistIntRaises(empty_distance) == empty_distance.form = "bad"

EmptyDistInt(empty_distance) ==
    IF empty_distance.form \in {"none", "blank"}
    THEN NoDistance
    ELSE Distance(empty_distance.v)

\* Variant of the HydroRanger length guard that takes longer payloads too.
HydroRangerLengthAtLeast(payload) == Len(payload.bytes) >= 13

\* len(bytes.fromhex(payload)) == 13
HydroRangerLength(payload) == Len(payload.bytes) = 13

\* What the chosen decoder does with the payload.
Decode(device_type, payload, dist) ==
    IF device_type = "HydroRanger" THEN ParseHydroRangerPayload(payload, dist)
    ELSE IF device_type = "Theta" THEN ParseThetaPayload(payload)
    ELSE IF device_type = "Echo" THEN ParseECHOdata(payload, dist)
    ELSE IF device_type = "Droplet" THEN ParseDROPLETdata(payload)
    ELSE ParseHYGROdata(payload)

\* parse_payload: routes to the decoder of the kind.  Every exception (of
\* the distance conversion, of bytes.fromhex, of the decoder) is caught and
\* becomes the {"error": ...} dict; a HydroRanger payload that is not 13
\* bytes long and a kind without decoder fall through to the note.
ParsePayload(device_type, payload, empty_distance) ==
    IF EmptyDistIntRaises(empty_distance)
    THEN ErrorDict("distance")
    ELSE IF device_type \notin {"HydroRanger", "Theta", "Echo", "Droplet", "Hygro"}
    THEN NoteDict
    ELSE IF device_type = "HydroRanger" /\ ~payload.hex
    THEN ErrorDict("decode")
    ELSE IF device_type = "HydroRanger" /\ ~HydroRangerLength(payload)
    THEN NoteDict
    ELSE LET r == Decode(device_type, payload, EmptyDistInt(empty_distance))
         IN  IF r.raised THEN ErrorDict("decode") ELSE Decoded(r.fields)

\* ------------------------------------------------------------ the catalog
\* devices = load_devices(): one catalogued device of every kind.
Device(eui, type, name, dist) ==
    [DeviceEUI |-> eui, type |-> type, DevName |-> name, SiteName |-> "site",
     Lat |-> 56, Lon |-> -4, EmptyDistance |-> dist]

devices ==
    << Device("eui1", "Echo", "Echo 1", Distance(1773)),
       Device("eui2", "HydroRanger", "Hydro 2", DistanceText(2236)),
       Device("eui3", "Theta", "Theta 3", NoDistance),
       Device("eui4", "Droplet", "Droplet 4", NoDistance),
       Device("eui5", "Hygro", "Hygro 5", BlankDistance) >>

\* Whether get_device_info finds the EUI; it raises ValueError otherwise.
Catalogued(eui) == \E k \in 1..Len(devices) : devices[k].DeviceEUI = eui

\* get_device_info(device_eui): the first catalogue entry with that EUI.
GetDeviceInfo(eui) ==
    devices[CHOOSE k \in 1..Len(devices) :
                /\ devices[k].DeviceEUI = eui
                /\ \A j \in 1..(k - 1) : devices[j].DeviceEUI # eui]

\* ------------------------------------------------------------------- state
VARIABLES
    pc,                 \* "start", "fetch" (a batch request is out), "done"
                        \* (the function returned), "aborted" (an exception
                        \* left the function)
    start,              \* resolved bounds
    end,
    max_days,
    collection_start,
    ts,                 \* the cursor
    batch_count,
    successful_batches,
    all_records,
    output,             \* the returned frame, rows in order
    clock,              \* the last reading of the wall clock
    requests,           \* history: batch requests issued so far
    lastResp,           \* history: how the last batch request was answered
    lastData,           \* history: the array of the last answer (<<>> unless
                        \* it was a non-empty batch)
    device_eui,         \* the device fetch_full_history is called for
    sent,               \* history: the parameters of the requests issued in
                        \* the run, without the cursor of a batch request
    fn,                 \* a function called on its own, its argument and
    arg,                \* what it returned
    ret,
    device_list,        \* collect_multiple_devices: its argument,
    position,           \* the index i of its loop,
    successful_collections,
    attempted,          \* history: the devices its loop has taken up
    mpc                 \* "loop" (between two devices), "fetching" (inside
                        \* fetch_full_history), "returned", "aborted" (an
                        \* exception left it), "none" (not called)

\* What a step of fetch_full_history leaves alone.
callVars == <<fn, arg, ret>>
multiVars == <<device_list, position, successful_collections, attempted, mpc>>
outerVars == <<device_eui, callVars, multiVars>>

\* The state of a fetch_full_history run, but for the clock.
fetchVars ==
    <<pc, start, end, max_days, collection_start, ts, batch_count,
      successful_batches, all_records, output, requests, lastResp, lastData,
      sent>>

vars == <<fetchVars, clock, outerVars>>

\* info = get_device_info(device_eui), for a catalogued device.
info == GetDeviceInfo(device_eui)

Unset == Instant(0, FALSE)

\* The locals of fetch_full_history before its first statement.
FetchLocals ==
    /\ start = Unset
    /\ end = Unset
    /\ max_days = 0
    /\ collection_start = Unset
    /\ ts = Unset
    /\ batch_count = 0
    /\ successful_batches = 0
    /\ all_records = <<>>
    /\ output = <<>>
    /\ requests = 0
    /\ lastResp = "none"
    /\ lastData = <<>>
    /\ sent = {}

\* No function is called on its own.
Pending == [done |-> FALSE]
NoCall == fn = "none" /\ arg = <<>> /\ ret = Pending

\* collect_multiple_devices is not called.
NoMulti ==
    /\ device_list = <<>>
    /\ position = 0
    /\ successful_collections = 0
    /\ attempted = <<>>
    /\ mpc = "none"

Init ==
    /\ pc = "start"
    /\ device_eui = "eui1"
    /\ clock = 30 * Day
    /\ FetchLocals
    /\ NoCall
    /\ NoMulti

\* ---------------------------------------------------------------- metadata
\* The Metadata of a received record: no such key, null, a string (its
\* ASCII codes), or a JSON object that is no string.
Md(form, text) == [form |-> form, text |-> text]
NoMetadata == Md("absent", <<>>)
NullMetadata == Md("none", <<>>)
MetadataText(text) == Md("str", text)
MetadataObject == Md("object", <<>>)

\* if rec.get("Metadata"): None and "" are falsy.
Truthy(md) == md.form = "object" \/ (md.form = "str" /\ md.text # <<>>)

\* The literals the modelled metadata texts are written from: an integer,
\* and a dict of one key (a character) and an integer.
IntLiteral(n) == [lit |-> "int", key |-> 0, v |-> n]
DictLiteral(key, n) == [lit |-> "dict", key |-> key, v |-> n]

\* A text that is an integer literal: an optional minus, then digits, with
\* no zero in front of another digit.
IsIntText(text) ==
    LET digits == IF text # <<>> /\ Head(text) = 45 THEN Tail(text) ELSE text
    IN  /\ digits # <<>>
        /\ \A i \in 1..Len(digits) : IsDigit(digits[i])
        /\ (Len(digits) > 1 => digits[1] # 48)

IntOfText(text) ==
    IF Head(text) = 45 THEN -DigitsValue(Tail(text), 0) ELSE DigitsValue(text, 0)

\* A text of the form {'k': n}.
IsDictText(text) ==
    /\ Len(text) >= 8
    /\ SubSeq(text, 1, 2) = <<123, 39>>
    /\ SubSeq(text, 4, 6) = <<39, 58, 32>>
    /\ text[Len(text)] = 125
    /\ IsIntText(SubSeq(text, 7, Len(text) - 1))

\* ast.literal_eval on a Metadata value, for the texts modelled: it raises
\* ValueError on what is no string (a dict) and on a name such as true, and
\* SyntaxError on a text that is no expression.
LiteralEvalRaises(md) ==
    md.form # "str" \/ ~(IsIntText(md.text) \/ IsDictText(md.text))

LiteralEval(md) ==
    IF IsIntText(md.text) THEN IntLiteral(IntOfText(md.text))
    ELSE DictLiteral(md.text[3], IntOfText(SubSeq(md.text, 7, Len(md.text) - 1)))

\* Variant that leaves the metadata out when the text is no literal.
MetadataGivenKeepsParsedOnly(md) == Truthy(md) /\ ~LiteralEvalRaises(md)

\* Is rec_out["metadata"] set: by the try when Metadata is truthy and is a
\* literal, by the bare except when literal_eval raised.
MetadataGiven(md) == Truthy(md)

\* rec_out["metadata"]: the literal, or rec.get("Metadata", "") as it came.
MetadataOut(md) == IF LiteralEvalRaises(md) THEN md ELSE LiteralEval(md)

\* ------------------------------------------------------- received records
\* One element of the array a batch request returns; DevEUI "" stands for a
\* record without that key.
RawRecord(stamp, eui, payload) ==
    [TimeStamp |-> stamp, DevEUI |-> eui, Payload |-> payload,
     Metadata |-> NoMetadata]

\* The record with a Metadata value.
WithMetadata(rec, md) == [rec EXCEPT !.Metadata = md]

\* rec["Payload"], rec["TimeStamp"], rec["DevEUI"] raise KeyError on a record
\* that lacks the key; the except of the record loop catches it.
RecordRaises(rec) ==
    \/ ~rec.Payload.present
    \/ rec.TimeStamp.shape = "missing"
    \/ rec.DevEUI = ""

\* rec_out.update({...}) for an Echo reading.
EchoFields(parsed) ==
    [water_level |-> parsed.fields[1], air_temp |-> parsed.fields[2],
     battery_volt |-> parsed.fields[3], water_temp |-> parsed.fields[4],
     status |-> parsed.fields[5]]

\* rec_out.update({...}) for a HydroRanger, Droplet, Hygro or Theta reading.
HydroRangerFields(parsed) ==
    [sensors |-> parsed.fields[1], water_level_avg |-> parsed.fields[2],
     water_level_min |-> parsed.fields[3], water_level_max |-> parsed.fields[4],
     air_temp |-> parsed.fields[5], air_humidity |-> parsed.fields[6]]

DropletFields(parsed) ==
    [air_temp |-> parsed.fields[1], air_pressure |-> parsed.fields[2],
     air_humidity |-> parsed.fields[3], battery_volt |-> parsed.fields[4],
     rtc_temp |-> parsed.fields[5], rainfall |-> parsed.fields[6],
     status |-> parsed.fields[7]]

HygroFields(parsed) ==
    [soil_moisture |-> parsed.fields[1], soil_temp |-> parsed.fields[2],
     soil_conductivity |-> parsed.fields[3], air_temp |-> parsed.fields[4],
     air_humidity |-> parsed.fields[5], battery_volt |-> parsed.fields[6],
     status |-> parsed.fields[7]]

ThetaFields(parsed) ==
    [soil_moisture |-> parsed.fields[1], soil_temp |-> parsed.fields[2],
     soil_conductivity |-> parsed.fields[3]]

\* The if/elif over device_type that picks the fields of a decoded list.
DecodedFields(device_type, parsed) ==
    IF device_type = "HydroRanger" THEN HydroRangerFields(parsed)
    ELSE IF device_type = "Echo" THEN EchoFields(parsed)
    ELSE IF device_type = "Droplet" THEN DropletFields(parsed)
    ELSE IF device_type = "Hygro" THEN HygroFields(parsed)
    ELSE ThetaFields(parsed)

\* The rec_out of one received record that raises nothing: the envelope and
\* device fields, the metadata when the record carries some, and the decoded
\* fields only when parse_payload returned a list ("if parsed and not
\* isinstance(parsed, dict)").
AssembleRecord(rec) ==
    LET parsed == ParsePayload(info.type, rec.Payload, info.EmptyDistance)
        rec_out == [timestamp |-> rec.TimeStamp, device_eui |-> rec.DevEUI,
                    device_name |-> info.DevName, device_type |-> info.type,
                    site_name |-> info.SiteName, latitude |-> info.Lat,
                    longitude |-> info.Lon, payload |-> rec.Payload]
        with_md == IF MetadataGiven(rec.Metadata)
                   THEN [metadata |-> MetadataOut(rec.Metadata)] @@ rec_out
                   ELSE rec_out
    IN  IF parsed.kind = "list"
        THEN DecodedFields(info.type, parsed) @@ with_md
        ELSE with_md

\* Variant of the record loop that drops a record whose payload does not
\* decode.
RECURSIVE ProcessBatchDropUndecoded(_)
ProcessBatchDropUndecoded(data) ==
    IF data = <<>> THEN <<>>
    ELSE IF \/ RecordRaises(Head(data))
            \/ ParsePayload(info.type, Head(data).Payload,
                            info.EmptyDistance).kind # "list"
    THEN ProcessBatchDropUndecoded(Tail(data))
    ELSE <<AssembleRecord(Head(data))>> \o ProcessBatchDropUndecoded(Tail(data))

\* Variant of the record loop that leaves the batch at the first record that
\* raises (break for continue).
RECURSIVE ProcessBatchStopsAtError(_)
ProcessBatchStopsAtError(data) ==
    IF data = <<>> THEN <<>>
    ELSE IF RecordRaises(Head(data)) THEN <<>>
    ELSE <<AssembleRecord(Head(data))>> \o ProcessBatchStopsAtError(Tail(data))

\* The record loop of one batch: "for rec in data: try: ... all_records
\* .append(rec_out) except Exception: continue".  Returns the records
\* appended, in batch order.
RECURSIVE ProcessBatch(_)
ProcessBatch(data) ==
    IF data = <<>> THEN <<>>
    ELSE IF RecordRaises(Head(data)) THEN ProcessBatch(Tail(data))
    ELSE <<AssembleRecord(Head(data))>> \o ProcessBatch(Tail(data))

\* ------------------------------------------------------- the modelled inputs
\* Readings of the wall clock during a run (datetime.now(), naive).
NowSet == {30 * Day, 30 * Day + 3600}

\* fetch_full_history(device_eui, max_days): 0 stands for None (both falsy).
MaxDaysSet == {0, 6}

\* What the bounds endpoint answers: ok = FALSE is a timeout, a connection or
\* status error, or a body that is no JSON object.
BoundsResponse(ok, startTS, endTS) ==
    [ok |-> ok, startTS |-> startTS, endTS |-> endTS]

BoundsResponses ==
    { BoundsResponse(FALSE, TsMissing, TsMissing),
      BoundsResponse(TRUE, IsoZ(0), IsoZ(20 * Day)),
      BoundsResponse(TRUE, IsoZ(0), IsoZ(Day \div 2)),
      BoundsResponse(TRUE, IsoZ(20 * Day), IsoZ(0)),
      BoundsResponse(TRUE, IsoZ(0), TsMissing) }

GoodPayload == PayloadValue(TRUE, TRUE, <<5, 188, 0, 0, 14, 216, 5, 72, 0, 0>>)
ShortPayload == PayloadValue(TRUE, TRUE, <<5, 188>>)
NoPayload == PayloadValue(FALSE, TRUE, <<>>)

\* The records of the modelled server: a stale one and a later one with a
\* payload too short to decode, one without a zone, one with an unreadable
\* timestamp, one without TimeStamp, one without Payload.
RecDomain ==
    { RawRecord(IsoZ(0), "eui1", GoodPayload),
      RawRecord(IsoZ(15 * Day), "eui1", ShortPayload),
      RawRecord(IsoNaive(Day), "eui1", GoodPayload),
      RawRecord(TsGarbage, "eui1", GoodPayload),
      RawRecord(TsMissing, "eui1", GoodPayload),
      RawRecord(IsoZ(15 * Day), "eui1", NoPayload) }

RECURSIVE SeqsUpTo(_, _)
SeqsUpTo(S, n) ==
    IF n = 0 THEN {<<>>}
    ELSE LET shorter == SeqsUpTo(S, n - 1)
         IN  shorter \cup {Append(q, x) : q \in shorter, x \in S}

\* The non-empty arrays a batch request can be answered with.
Batches == SeqsUpTo(RecDomain, MaxBatchLen) \ {<<>>}

\* ------------------------------------------------------- bounds resolution
\* bounds.get(key, ""): a missing key reads as "".
GetOrEmpty(v) == IF v.shape = "missing" THEN TsEmpty ELSE v

\* get_device_bounds_safe: every exception gives the default window.
BoundsDefaulted(resp) ==
    ~resp.ok \/ ParseRaises(GetOrEmpty(resp.startTS))
             \/ ParseRaises(GetOrEmpty(resp.endTS))

GetDeviceBoundsSafe(resp, now, lenient) ==
    IF BoundsDefaulted(resp)
    THEN <<Instant(now - DefaultWindowDays * Day, FALSE), Instant(now, FALSE)>>
    ELSE <<ParseTimestampRobust(GetOrEmpty(resp.startTS), now, lenient),
           ParseTimestampRobust(GetOrEmpty(resp.endTS), now, lenient)>>

\* Whether get_device_bounds_safe reads the wall clock.
BoundsUseClock(resp) ==
    \/ BoundsDefaulted(resp)
    \/ \E l \in Builds : UsesClock(GetOrEmpty(resp.startTS), l)
    \/ \E l \in Builds : UsesClock(GetOrEmpty(resp.endTS), l)

\* Variant of collection_start that takes the earlier of the two instants.
CollectionStartMin(st, en, md) ==
    IF md # 0
    THEN IF en.t - md * Day < st.t THEN PlusSeconds(en, -(md * Day)) ELSE st
    ELSE st

\* collection_start for comparable bounds.
CollectionStart(st, en, md) ==
    IF md # 0
    THEN IF en.t - md * Day > st.t THEN PlusSeconds(en, -(md * Day)) ELSE st
    ELSE st

\* ------------------------------------------------------------ the sorting
\* df['timestamp'].apply(parse_timestamp_robust): the rows of the frame.
FrameRows(recs, now, lenient) ==
    [i \in 1..Len(recs) |->
        [recs[i] EXCEPT
            !.timestamp = ParseTimestampRobust(recs[i].timestamp, now, lenient)]]

\* The apply raises on a timestamp that is no string; sort_values raises
\* (TypeError) when it has to compare an aware and a naive timestamp.
SortRaises(recs, rows) ==
    \/ \E i \in 1..Len(recs) : ParseRaises(recs[i].timestamp)
    \/ \E i, j \in 1..Len(rows) :
           ~Comparable(rows[i].timestamp, rows[j].timestamp)

IsSorted(rows) ==
    \A i, j \in 1..Len(rows) :
        i < j => rows[i].timestamp.t <= rows[j].timestamp.t

\* Variant that returns the rows as accumulated.
SortValuesNone(rows) == {rows}

\* df.sort_values('timestamp').reset_index(drop=True): every ascending
\* arrangement of the rows (the default sort is not stable).
SortValues(rows) ==
    LET n == Len(rows)
        perms == {p \in [1..n -> 1..n] : \A k \in 1..n : \E i \in 1..n : p[i] = k}
    IN  {q \in {[i \in 1..n |-> rows[p[i]]] : p \in perms} : IsSorted(q)}

\* Whether building the frame of recs reads the wall clock.
FrameUsesClock(recs) ==
    \E i \in 1..Len(recs), l \in Builds : UsesClock(recs[i].timestamp, l)

\* The code after the loop: build the frame, sort it unless empty, return.
Exit(recs, now) ==
    IF recs = <<>>
    THEN pc' = "done" /\ output' = <<>>
    ELSE \E rows \in {FrameRows(recs, now, l) : l \in Builds} :
            IF SortRaises(recs, rows)
            THEN pc' = "aborted" /\ output' = <<>>
            ELSE pc' = "done" /\ output' \in SortValues(rows)

\* ------------------------------------------------------ request parameters
\* A parameter a request does not carry.
Absent == "absent"

\* Variant that sends the kind with every batch request.
FetchParamsAlwaysTyped(eui, device_type) ==
    [endpoint |-> "fetch", device |-> eui, type |-> device_type]

\* fetch_params of a batch request, without its "timestamp" (the cursor):
\* "type" only 'if device_type in ["HydroRanger", "Theta"]'.
FetchParams(eui, device_type) ==
    [endpoint |-> "fetch", device |-> eui,
     type |-> IF device_type \in {"HydroRanger", "Theta"}
              THEN device_type ELSE Absent]

\* bounds_params of the bounds request.
BoundsParams(eui, device_type) ==
    [endpoint |-> "bounds", device |-> eui,
     type |-> IF device_type \in {"HydroRanger", "Theta"}
              THEN device_type ELSE Absent]

\* ----------------------------------------------------------------- the loop
\* Variant of the loop condition that looks at the batch counter only.
LoopContinuesCapOnly(cur, en, bc) == bc < BatchCap

\* Variant of the loop condition that admits one more batch.
LoopContinuesOffByOne(cur, en, bc) == cur.t < en.t /\ bc <= BatchCap

\* while ts < end and batch_count < 100
LoopContinues(cur, en, bc) == cur.t < en.t /\ bc < BatchCap

\* Whether the loop ends at its head and the function goes on to return.
LoopExits(cur, en, bc) == Comparable(cur, en) /\ ~LoopContinues(cur, en, bc)

\* The head of the loop, reached with cursor cur: the comparison raises on an
\* aware and a naive datetime; otherwise the next request goes out
\* (batch_count += 1) or the loop ends and the function returns.
LoopHead(cur, en, bc, recs, now) ==
    IF ~Comparable(cur, en)
    THEN /\ pc' = "aborted"
         /\ output' = <<>>
         /\ batch_count' = bc
         /\ requests' = requests
         /\ sent' = sent \cup {BoundsParams(device_eui, info.type)}
    ELSE IF LoopContinues(cur, en, bc)
    THEN /\ pc' = "fetch"
         /\ output' = <<>>
         /\ batch_count' = bc + 1
         /\ requests' = requests + 1
         /\ sent' = sent \cup {BoundsParams(device_eui, info.type),
                               FetchParams(device_eui, info.type)}
    ELSE /\ batch_count' = bc
         /\ requests' = requests
         /\ sent' = sent \cup {BoundsParams(device_eui, info.type)}
         /\ Exit(recs, now)

\* Variant of the skip that moves a week.
SkipAheadWeek(cur) == PlusSeconds(cur, 7 * Day)

\* ts += timedelta(days=14)
SkipAhead(cur) == PlusSeconds(cur, SkipDays * Day)

\* Variant that reads the first record of the batch.
FirstTimeStamp(data) == data[1].TimeStamp

\* data[-1]["TimeStamp"]
LastTimeStamp(data) == data[Len(data)].TimeStamp

\* Reading or parsing the last TimeStamp raises (KeyError, AttributeError).
LastUnreadable(last) == last.shape = "missing" \/ ParseRaises(last)

\* Variant of the advance that restarts at the last record itself.
AdvanceCursorNoStep(cur, last, now) ==
    IF last.shape = "missing" \/ ParseRaises(last)
    THEN {PlusSeconds(cur, SkipDays * Day)}
    ELSE Normalized(last, now)

\* The cursors possible after a non-empty batch whose last record has
\* TimeStamp last: last_ts + 1 second, or the 14-day skip when reading or
\* parsing it raises.
AdvanceCursor(cur, last, now) ==
    IF LastUnreadable(last)
    THEN {SkipAhead(cur)}
    ELSE {PlusSeconds(x, 1) : x \in Normalized(last, now)}

\* The wall clock as an action reads it: a reading not before the last one
\* when the action calls datetime.now(), else no reading at all.
Readings(needed) == IF needed THEN {n \in NowSet : n >= clock} ELSE {clock}

\* ----------------------------------------------------------------- actions
\* From the call of fetch_full_history to its first batch request: the bounds
\* are resolved, the window is computed and checked.
StartOn(responses, caps) ==
    /\ pc = "start"
    /\ \E resp \in responses, md \in caps :
       \E now \in Readings(BoundsUseClock(resp)) :
       \E b \in {GetDeviceBoundsSafe(resp, now, l) : l \in Builds} :
        LET cs == CollectionStart(b[1], b[2], md)
        IN  /\ clock' = now
            /\ start' = b[1]
            /\ end' = b[2]
            /\ max_days' = md
            /\ UNCHANGED <<successful_batches, all_records, lastResp,
                           lastData, outerVars>>
            /\ IF ~Comparable(b[1], b[2])
               THEN \* max(start, end - ...) or end - collection_start raises
                    /\ pc' = "aborted"
                    /\ collection_start' = IF md # 0 THEN Unset ELSE b[1]
                    /\ sent' = {BoundsParams(device_eui, info.type)}
                    /\ UNCHANGED <<ts, batch_count, output, requests>>
               ELSE /\ collection_start' = cs
                    /\ IF DaysOf(b[2].t - cs.t) <= 0
                       THEN /\ pc' = "done"
                            /\ output' = <<>>
                            /\ sent' = {BoundsParams(device_eui, info.type)}
                            /\ UNCHANGED <<ts, batch_count, requests>>
                       ELSE /\ ts' = cs
                            /\ LoopHead(cs, b[2], 0, <<>>, now)

\* Variant of the failed batch that starts the collection afresh.
BatchFailStepDropsRecords ==
    /\ pc = "fetch"
    /\ \E now \in Readings(FALSE) :
        /\ clock' = now
        /\ ts' = SkipAhead(ts)
        /\ lastResp' = "fail"
        /\ lastData' = <<>>
        /\ all_records' = <<>>
        /\ UNCHANGED <<start, end, max_days, collection_start,
                       successful_batches, outerVars>>
        /\ LoopHead(SkipAhead(ts), end, batch_count, <<>>, now)

\* The batch request fails as a whole (timeout, connection or status error,
\* a body that is no JSON): the except of the loop body skips 14 days.
BatchFailStep ==
    /\ pc = "fetch"
    /\ \E now \in Readings(/\ LoopExits(SkipAhead(ts), end, batch_count)
                           /\ FrameUsesClock(all_records)) :
        /\ clock' = now
        /\ ts' = SkipAhead(ts)
        /\ lastResp' = "fail"
        /\ lastData' = <<>>
        /\ UNCHANGED <<start, end, max_days, collection_start,
                       successful_batches, all_records, outerVars>>
        /\ LoopHead(SkipAhead(ts), end, batch_count, all_records, now)

\* Variant of the empty answer that goes round the loop again (continue for
\* break).
BatchEmptyContinues ==
    /\ pc = "fetch"
    /\ \E now \in Readings(/\ LoopExits(ts, end, batch_count)
                           /\ \E i \in 1..Len(all_records), l \in Builds :
                                  UsesClock(all_records[i].timestamp, l)) :
        /\ clock' = now
        /\ lastResp' = "empty"
        /\ lastData' = <<>>
        /\ UNCHANGED <<start, end, max_days, collection_start, ts,
                       successful_batches, all_records, outerVars>>
        /\ LoopHead(ts, end, batch_count, all_records, now)

\* The batch request is answered with an empty body: break.
BatchEmptyStep ==
    /\ pc = "fetch"
    /\ \E now \in Readings(FrameUsesClock(all_records)) :
        /\ clock' = now
        /\ lastResp' = "empty"
        /\ lastData' = <<>>
        /\ UNCHANGED <<start, end, max_days, collection_start, ts, batch_count,
                       successful_batches, all_records, requests, sent,
                       outerVars>>
        /\ Exit(all_records, now)

\* How many records of a batch the record loop appends.
Kept(data) == Cardinality({i \in 1..Len(data) : ~RecordRaises(data[i])})

\* Variant that counts a batch only when a record of it was appended.
CountBatchIfKept(sb, data) == IF Kept(data) > 0 THEN sb + 1 ELSE sb

\* successful_batches += 1 after the record loop, whatever it appended.
CountBatch(sb, data) == sb + 1

\* The batch request is answered with a non-empty array out of batches.
BatchRecordsOn(batches) ==
    /\ pc = "fetch"
    /\ \E data \in batches :
        LET recs == all_records \o ProcessBatch(data)
            last == LastTimeStamp(data)
            parses == ~LastUnreadable(last) /\ \E l \in Builds : UsesClock(last, l)
        IN  /\ Len(all_records) + Kept(data) <= MaxRecords
            /\ \E now \in Readings(parses \/ FrameUsesClock(recs)) :
               \E cur \in AdvanceCursor(ts, last, now) :
                /\ clock' = now
                /\ all_records' = recs
                /\ successful_batches' = CountBatch(successful_batches, data)
                /\ ts' = cur
                /\ lastResp' = "ok"
                /\ lastData' = data
                /\ UNCHANGED <<start, end, max_days, collection_start,
                               outerVars>>
                /\ LoopHead(cur, end, batch_count, recs, now)

\* ---------------------------------------------- the detailed specification
\* Every modelled bounds answer, day cap and batch; the server answers the
\* first MaxRequests batch requests of a run.
Answering == batch_count <= MaxRequests

Start == StartOn(BoundsResponses, MaxDaysSet)
BatchFail == Answering /\ BatchFailStep
BatchEmpty == Answering /\ BatchEmptyStep
BatchRecords == Answering /\ BatchRecordsOn(Batches)

Next == Start \/ BatchFail \/ BatchEmpty \/ BatchRecords

Spec == Init /\ [][Next]_vars

\* ---------------------------------------------- the long-run specification
\* A run to the end of its batch budget: an uncapped 20-day window, and a
\* server that for ever fails, answers nothing, or answers the same stale
\* record (with or without its DevEUI), whose timestamp is the start of the
\* window.
LongBounds == {BoundsResponse(TRUE, IsoZ(0), IsoZ(20 * Day))}
StaleBatches ==
    { <<RawRecord(IsoZ(0), "", GoodPayload)>>,
      <<RawRecord(IsoZ(0), "eui1", GoodPayload)>> }

LongStart == StartOn(LongBounds, {0})
LongBatchFail == BatchFailStep
LongBatchEmpty == BatchEmptyStep
LongBatchRecords == BatchRecordsOn(StaleBatches)

LongNext == LongStart \/ LongBatchFail \/ LongBatchEmpty \/ LongBatchRecords

\* Every batch request is answered or runs into its 30 s timeout, and the
\* code between two requests always runs to the next one.
LongSpec == Init /\ [][LongNext]_vars /\ WF_vars(LongNext)

\* ------------------------------------------------- the query API (app.py)
\* The device types that have a table.
TABLE_MAPPING == {"HydroRanger", "Echo", "Droplet", "Hygro", "Theta"}

\* max_limit of GET /data, and the cap of GET /data-chunked.
max_limit == 100000
ChunkCap == 10000

\* The database: whether the file exists, and how many rows the table of
\* the device type holds for the device (within the date filters).
Database(exists, rows) == [exists |-> exists, rows |-> rows]

\* What the client receives: the status, the detail of an error (with the
\* text of the exception it was made from) and the number of records of a
\* body.
Response(status, detail, cause, recordCount) ==
    [status |-> status, detail |-> detail, cause |-> cause,
     recordCount |-> recordCount]

\* raise HTTPException(status_code=..., detail=...)
HTTPException(status, detail) == Response(status, detail, "", 0)

\* "except Exception as e: raise HTTPException(status_code=500, detail=
\* f"...: {str(e)}")" around the body of a handler: HTTPException is an
\* Exception, so one raised inside the try is caught as well.
Caught(detail, e) == Response(500, detail, e.detail, 0)

\* The try/except of a handler around what its body raised or returned.
Guarded(detail, r) == IF r.status = 200 THEN r ELSE Caught(detail, r)

\* get_db_connection raises 404 when the file does not exist.
DbMissing == HTTPException(404, "Database file not found")

\* The rows SQLite gives for "LIMIT limit OFFSET offset" out of n: a
\* negative LIMIT is no limit, a negative OFFSET is none.
SqlLimit(n, limit, offset) ==
    LET off == IF offset < 0 THEN 0 ELSE offset
        left == IF n > off THEN n - off ELSE 0
    IN  IF limit < 0 \/ limit > left THEN left ELSE limit

\* GET /health
health_check(db) ==
    Guarded("Database connection failed",
            IF ~db.exists THEN DbMissing ELSE Response(200, "", "", 0))

\* GET /data-bounds/{device_type}/{device_eui}
get_data_bounds(device_type, db) ==
    IF device_type \notin TABLE_MAPPING
    THEN HTTPException(400, "Invalid device type")
    ELSE Guarded("Database query failed",
            IF ~db.exists THEN DbMissing
            ELSE IF db.rows = 0
            THEN HTTPException(404, "No data found for this device")
            ELSE Response(200, "", "", db.rows))

\* GET /data/{device_type}/{device_eui}?limit=
get_device_data(device_type, limit, db) ==
    IF device_type \notin TABLE_MAPPING
    THEN HTTPException(400, "Invalid device type")
    ELSE LET capped == IF limit > max_limit THEN max_limit ELSE limit
         IN  Guarded("Database query failed",
                IF ~db.exists THEN DbMissing
                ELSE Response(200, "", "", SqlLimit(db.rows, capped, 0)))

\* GET /data-chunked/{device_type}/{device_eui}?offset=&limit=
get_device_data_chunked(device_type, offset, limit, db) ==
    IF device_type \notin TABLE_MAPPING
    THEN HTTPException(400, "Invalid device type")
    ELSE LET capped == IF limit > ChunkCap THEN ChunkCap ELSE limit
         IN  Guarded("Database query failed",
                IF ~db.exists THEN DbMissing
                ELSE Response(200, "", "", SqlLimit(db.rows, capped, offset)))

\* The databases, device types, limits and offsets the handlers are tried
\* on.
Databases ==
    {Database(FALSE, 0)} \cup {Database(TRUE, n) : n \in {0, 7, 10001, 100001}}

DeviceTypes == {"Echo", "Theta", "Other"}
Limits == {-1, 0, 5, 10000, 10001, 100000, 100001}
Offsets == {-1, 0, 3}

\* ------------------------------------------- functions called on their own
\* struct.pack of the raw integers a payload is made of.
Pack8(v) == <<IF v < 0 THEN v + 256 ELSE v>>

Pack16(v) ==
    LET u == IF v < 0 THEN v + 65536 ELSE v IN <<u \div 256, u % 256>>

Pack32(v) ==
    LET hi == v \div 65536
        lo == v % 65536
    IN  Pack16(IF hi >= 32768 THEN hi - 65536 ELSE hi) \o <<lo \div 256, lo % 256>>

PackDroplet(r) ==
    Pack16(r[1]) \o Pack32(r[2]) \o Pack16(r[3]) \o Pack16(r[4])
        \o Pack16(r[5]) \o Pack16(r[6]) \o Pack16(r[7])

PackEcho(r) ==
    Pack16(r[1]) \o Pack16(r[2]) \o Pack16(r[3]) \o Pack16(r[4]) \o Pack16(r[5])

PackHydroRanger(r) ==
    Pack8(r[1]) \o Pack16(r[2]) \o Pack16(r[3]) \o Pack16(r[4])
        \o Pack16(r[5]) \o Pack16(r[6]) \o Pack16(r[7])

\* A payload with the raw integers it was packed from (<<>> for a payload
\* that is no packed layout).
Vector(payload, raw) == [payload |-> payload, raw |-> raw]
Packed(bytes, raw) == Vector(PayloadValue(TRUE, TRUE, bytes), raw)

Zeros(n) == [i \in 1..n |-> 0]

\* Payloads of no layout: no hex text, and hex texts of n bytes.
NotHex == Vector(PayloadValue(TRUE, FALSE, <<>>), <<>>)
OfLength(n) == Vector(PayloadValue(TRUE, TRUE, Zeros(n)), <<>>)

\* 066b000182632710002a000000000000
DropletExample ==
    PayloadValue(TRUE, TRUE, <<6, 107, 0, 1, 130, 99, 39, 16, 0, 42, 0, 0, 0, 0, 0, 0>>)

DropletRaws ==
    {1643, -1} \X {98915, -70000, 65536} \X {10000} \X {42, -5} \X {0}
        \X {0, 3} \X {0, 1}

DropletVectors ==
    {Packed(PackDroplet(r), r) : r \in DropletRaws}
        \cup {NotHex, OfLength(0), OfLength(14), OfLength(15), OfLength(17)}

EchoRaws == {1468, -20, 32767} \X {0} \X {3800, 3514} \X {1352} \X {0}

EchoVectors ==
    {Packed(PackEcho(r), r) : r \in EchoRaws}
        \cup {NotHex, OfLength(9), OfLength(11)}

HydroRangerRaws ==
    {5, -1} \X {2104} \X {2000, 2104} \X {2104, 2300} \X {-777, 1427, -778}
        \X {7776, 0} \X {-888}

HydroRangerVectors ==
    {Packed(PackHydroRanger(r), r) : r \in HydroRangerRaws}
        \cup {NotHex, OfLength(0), OfLength(12), OfLength(14), OfLength(26)}

\* A Hygro payload has 14 bytes; shorter and longer ones, and no hex.
HygroVectors ==
    {NotHex, OfLength(0), OfLength(13), OfLength(14), OfLength(15)}

\* A Theta text: a leading "0" and the tokens one after the other, as in the
\* example 0+2285.59+14.4+2.
RECURSIVE Join(_)
Join(tokens) == IF tokens = <<>> THEN <<>> ELSE Head(tokens) \o Join(Tail(tokens))

ThetaText(tokens) == <<48>> \o Join(tokens)

\* The tokens +2, +1.5, -3, and the texts of none to four of them; a text
\* with a byte that is no ASCII; no hex.
ThetaTokens == {<<43, 50>>, <<43, 49, 46, 53>>, <<45, 51>>}

ThetaTokenLists ==
    {<<>>}
        \cup {<<a, b>> : a \in ThetaTokens, b \in ThetaTokens}
        \cup {<<a, b, c>> : a \in ThetaTokens, b \in ThetaTokens, c \in ThetaTokens}
        \cup {<<a, b, c, a>> : a \in ThetaTokens, b \in ThetaTokens, c \in ThetaTokens}

ThetaVectors ==
    {Packed(ThetaText(t), t) : t \in ThetaTokenLists}
        \cup {NotHex, Packed(<<48, 43, 50, 200>>, <<>>)}

\* repr of a literal: the decimal digits of an integer, {'k': n} of a dict.
RECURSIVE NatDigits(_)
NatDigits(n) ==
    IF n < 10 THEN <<48 + n>> ELSE NatDigits(n \div 10) \o <<48 + (n % 10)>>

IntRepr(n) == IF n < 0 THEN <<45>> \o NatDigits(-n) ELSE NatDigits(n)

Repr(l) ==
    IF l.lit = "int" THEN IntRepr(l.v)
    ELSE <<123, 39, l.key, 39, 58, 32>> \o IntRepr(l.v) \o <<125>>

\* A Metadata value with the literal its text was written from (NoLiteral
\* for a value that is no literal's text).
NoLiteral == [lit |-> "none", key |-> 0, v |-> 0]
MdVector(md, raw) == [md |-> md, raw |-> raw]

\* 5, -97, 0, 120, {'r': -97}, {'s': 7}
MetadataLiterals ==
    {IntLiteral(5), IntLiteral(-97), IntLiteral(0), IntLiteral(120),
     DictLiteral(114, -97), DictLiteral(115, 7)}

\* true, {'r': , -, 07, abc
NoLiteralTexts ==
    {<<116, 114, 117, 101>>, <<123, 39, 114, 39, 58, 32>>, <<45>>, <<48, 55>>,
     <<97, 98, 99>>}

MetadataVectors ==
    {MdVector(MetadataText(Repr(l)), l) : l \in MetadataLiterals}
        \cup {MdVector(MetadataText(t), NoLiteral) : t \in NoLiteralTexts}
        \cup {MdVector(md, NoLiteral) :
                md \in {NoMetadata, NullMetadata, MetadataText(<<>>), MetadataObject}}

\* The emptyDist a decoder is called with, and the EmptyDistance values of a
\* catalogue entry.
DecoderDistances == {NoDistance, Distance(1773), Distance(2236)}
CatalogueDistances ==
    {NoDistance, Distance(1773), DistanceText(2236), BlankDistance, BadDistance}

\* The values parse_timestamp_robust is called with.
TimestampValues ==
    {TsNull, TsNumber, TsEmpty, TsGarbage}
        \cup {TsValue("badfrac", sec, 0, zone) :
                sec \in {0, Day}, zone \in {"Z", "off", "none"}}
        \cup {TsValue("iso", sec, frac, zone) :
                sec \in {0, Day}, frac \in {0, 1, 3, 6, 7}, zone \in {"Z", "off", "none"}}

\* The answers of the bounds endpoint get_device_bounds_safe is tried on.
BoundsStamps ==
    {TsMissing, TsNull, TsNumber, TsEmpty, TsGarbage, IsoZ(0), IsoZ(20 * Day),
     IsoNaive(0)}

BoundsAnswers ==
    {BoundsResponse(FALSE, TsMissing, TsMissing)}
        \cup {BoundsResponse(TRUE, a, b) : a \in BoundsStamps, b \in BoundsStamps}

\* The calls made: the function and its argument.
Calls ==
    {<<"parse_timestamp_robust", v>> : v \in TimestampValues}
        \cup {<<"get_device_bounds_safe", r>> : r \in BoundsAnswers}
        \cup {<<"parseDROPLETdata", v>> : v \in DropletVectors}
        \cup {<<"parseECHOdata", [vector |-> v, emptyDist |-> d]>> :
                v \in EchoVectors, d \in DecoderDistances}
        \cup {<<"parseHydroRangerPayload", [vector |-> v, emptyDist |-> d]>> :
                v \in HydroRangerVectors, d \in DecoderDistances}
        \cup {<<"parse_payload",
                [device_type |-> "Echo", vector |-> v, empty_distance |-> d]>> :
                v \in EchoVectors, d \in CatalogueDistances}
        \cup {<<"parse_payload",
                [device_type |-> "HydroRanger", vector |-> v, empty_distance |-> d]>> :
                v \in HydroRangerVectors, d \in CatalogueDistances}
        \cup {<<"parse_payload",
                [device_type |-> "Theta", vector |-> v, empty_distance |-> NoDistance]>> :
                v \in ThetaVectors}
        \cup {<<"parse_payload",
                [device_type |-> "Droplet", vector |-> v, empty_distance |-> NoDistance]>> :
                v \in DropletVectors}
        \cup {<<"parse_payload",
                [device_type |-> "Hygro", vector |-> v, empty_distance |-> d]>> :
                v \in HygroVectors, d \in {NoDistance, BlankDistance}}
        \cup {<<"health_check", [db |-> db]>> : db \in Databases}
        \cup {<<"get_data_bounds", [device_type |-> t, db |-> db]>> :
                t \in DeviceTypes, db \in Databases}
        \cup {<<"get_device_data", [device_type |-> t, limit |-> l, db |-> db]>> :
                t \in DeviceTypes, l \in Limits, db \in Databases}
        \cup {<<"get_device_data_chunked",
                [device_type |-> t, offset |-> o, limit |-> l, db |-> db]>> :
                t \in DeviceTypes, o \in Offsets, l \in Limits, db \in Databases}
        \cup {<<"rec_out", [device |-> "eui1", vector |-> v, metadata |-> m]>> :
                v \in {Packed(PackEcho(r), r) : r \in EchoRaws},
                m \in MetadataVectors}
        \cup {<<"rec_out", [device |-> "eui3", vector |-> v,
                           metadata |-> MdVector(NoMetadata, NoLiteral)]>> : v \in ThetaVectors}
        \cup {<<"rec_out", [device |-> "eui4", vector |-> v,
                           metadata |-> MdVector(NoMetadata, NoLiteral)]>> : v \in DropletVectors}
        \cup {<<"rec_out", [device |-> "eui5", vector |-> v,
                           metadata |-> MdVector(NoMetadata, NoLiteral)]>> : v \in HygroVectors}
        \cup {<<"rec_out", [device |-> "eui1", vector |-> v,
                           metadata |-> MdVector(NoMetadata, NoLiteral)]>> : v \in EchoVectors}
        \cup {<<"rec_out", [device |-> "eui2", vector |-> v,
                           metadata |-> MdVector(NoMetadata, NoLiteral)]>> :
                v \in HydroRangerVectors}

\* No fetch_full_history run is under way; a function is about to be called.
CallInit ==
    /\ pc = "idle"
    /\ clock = 30 * Day
    /\ FetchLocals
    /\ NoMulti
    /\ ret = Pending
    /\ \E c \in Calls :
        /\ fn = c[1]
        /\ arg = c[2]
        /\ device_eui = IF c[1] = "rec_out" THEN c[2].device ELSE "eui1"

Calling(name) == fn = name /\ ~ret.done

CallParseTimestamp ==
    /\ Calling("parse_timestamp_robust")
    /\ \E l \in Builds :
       \E now \in Readings(~ParseRaises(arg) /\ UsesClock(arg, l)) :
        /\ clock' = now
        /\ ret' = IF ParseRaises(arg)
                  THEN [done |-> TRUE, raised |-> TRUE, lenient |-> l,
                        value |-> Unset]
                  ELSE [done |-> TRUE, raised |-> FALSE, lenient |-> l,
                        value |-> ParseTimestampRobust(arg, now, l)]
    /\ UNCHANGED <<fetchVars, device_eui, fn, arg, multiVars>>

CallBounds ==
    /\ Calling("get_device_bounds_safe")
    /\ \E l \in Builds :
       \E now \in Readings(BoundsUseClock(arg)) :
        LET b == GetDeviceBoundsSafe(arg, now, l)
        IN  /\ clock' = now
            /\ ret' = [done |-> TRUE, start |-> b[1], end |-> b[2]]
    /\ UNCHANGED <<fetchVars, device_eui, fn, arg, multiVars>>

CallDroplet ==
    /\ Calling("parseDROPLETdata")
    /\ ret' = [done |-> TRUE] @@ ParseDROPLETdata(arg.payload)
    /\ UNCHANGED <<fetchVars, clock, device_eui, fn, arg, multiVars>>

CallEcho ==
    /\ Calling("parseECHOdata")
    /\ ret' = [done |-> TRUE] @@ ParseECHOdata(arg.vector.payload, arg.emptyDist)
    /\ UNCHANGED <<fetchVars, clock, device_eui, fn, arg, multiVars>>

CallHydroRanger ==
    /\ Calling("parseHydroRangerPayload")
    /\ ret' = [done |-> TRUE]
                @@ ParseHydroRangerPayload(arg.vector.payload, arg.emptyDist)
    /\ UNCHANGED <<fetchVars, clock, device_eui, fn, arg, multiVars>>

CallParsePayload ==
    /\ Calling("parse_payload")
    /\ ret' = [done |-> TRUE]
                @@ ParsePayload(arg.device_type, arg.vector.payload,
                                arg.empty_distance)
    /\ UNCHANGED <<fetchVars, clock, device_eui, fn, arg, multiVars>>

\* The body of the record loop on one received record of device_eui.
CallRecord ==
    /\ Calling("rec_out")
    /\ LET rec == WithMetadata(RawRecord(IsoZ(0), device_eui, arg.vector.payload),
                               arg.metadata.md)
       IN  ret' = [done |-> TRUE, raised |-> RecordRaises(rec),
                   rec_out |-> AssembleRecord(rec)]
    /\ UNCHANGED <<fetchVars, clock, device_eui, fn, arg, multiVars>>

\* The handlers of the query API on one request.
CallHealthCheck ==
    /\ Calling("health_check")
    /\ ret' = [done |-> TRUE] @@ health_check(arg.db)
    /\ UNCHANGED <<fetchVars, clock, device_eui, fn, arg, multiVars>>

CallGetDataBounds ==
    /\ Calling("get_data_bounds")
    /\ ret' = [done |-> TRUE] @@ get_data_bounds(arg.device_type, arg.db)
    /\ UNCHANGED <<fetchVars, clock, device_eui, fn, arg, multiVars>>

CallGetDeviceData ==
    /\ Calling("get_device_data")
    /\ ret' = [done |-> TRUE]
                @@ get_device_data(arg.device_type, arg.limit, arg.db)
    /\ UNCHANGED <<fetchVars, clock, device_eui, fn, arg, multiVars>>

CallGetDeviceDataChunked ==
    /\ Calling("get_device_data_chunked")
    /\ ret' = [done |-> TRUE]
                @@ get_device_data_chunked(arg.device_type, arg.offset,
                                           arg.limit, arg.db)
    /\ UNCHANGED <<fetchVars, clock, device_eui, fn, arg, multiVars>>

CallNext ==
    \/ CallParseTimestamp
    \/ CallBounds
    \/ CallDroplet
    \/ CallEcho
    \/ CallHydroRanger
    \/ CallParsePayload
    \/ CallRecord
    \/ CallHealthCheck
    \/ CallGetDataBounds
    \/ CallGetDeviceData
    \/ CallGetDeviceDataChunked

CallSpec == CallInit /\ [][CallNext]_vars

\* ------------------------------------------------ collect_multiple_devices
\* Bound on the length of device_list.
MaxDevices == 2

\* collect_multiple_devices(device_list, max_days=365)
DefaultMaxDays == 365

\* The EUIs a device_list is made of: the catalogue's and one it lacks.
ListedEUIs == {devices[k].DeviceEUI : k \in 1..Len(devices)} \cup {"eui9"}

DeviceLists == SeqsUpTo(ListedEUIs, MaxDevices)

MultiInit ==
    /\ pc = "idle"
    /\ device_eui = "none"
    /\ clock = 30 * Day
    /\ FetchLocals
    /\ NoCall
    /\ device_list \in DeviceLists
    /\ position = 1
    /\ successful_collections = 0
    /\ attempted = <<>>
    /\ mpc = "loop"

\* The loop takes up the next device: get_device_info raises on an EUI the
\* catalogue lacks (caught, continue); otherwise fetch_full_history is
\* called.
DeviceBegin ==
    /\ mpc = "loop"
    /\ position <= Len(device_list)
    /\ attempted' = Append(attempted, device_list[position])
    /\ UNCHANGED <<device_list, successful_collections, clock, callVars>>
    /\ IF Catalogued(device_list[position])
       THEN /\ device_eui' = device_list[position]
            /\ mpc' = "fetching"
            /\ position' = position
            /\ pc' = "start"
            /\ start' = Unset
            /\ end' = Unset
            /\ max_days' = 0
            /\ collection_start' = Unset
            /\ ts' = Unset
            /\ batch_count' = 0
            /\ successful_batches' = 0
            /\ all_records' = <<>>
            /\ output' = <<>>
            /\ requests' = 0
            /\ lastResp' = "none"
            /\ lastData' = <<>>
            /\ sent' = {}
       ELSE /\ position' = position + 1
            /\ mpc' = "loop"
            /\ UNCHANGED <<fetchVars, device_eui>>

\* Variant without the try around the body of the loop: an exception out
\* of fetch_full_history leaves collect_multiple_devices.
DeviceEndPropagates ==
    /\ mpc = "fetching"
    /\ pc \in {"done", "aborted"}
    /\ pc' = "idle"
    /\ UNCHANGED <<start, end, max_days, collection_start, ts, batch_count,
                   successful_batches, all_records, output, requests,
                   lastResp, lastData, sent>>
    /\ UNCHANGED <<device_list, attempted, device_eui, clock, callVars>>
    /\ IF pc = "aborted"
       THEN /\ mpc' = "aborted"
            /\ UNCHANGED <<position, successful_collections>>
       ELSE /\ mpc' = "loop"
            /\ position' = position + 1
            /\ \E wrote \in {output # <<>>} :
                  successful_collections' =
                      IF wrote THEN successful_collections + 1
                      ELSE successful_collections

\* fetch_full_history is over.  An exception out of it is caught (continue);
\* an empty frame is passed over (continue); otherwise the frame is written
\* and counted, unless df.to_csv raises, which is caught as well.  What
\* follows the count (the summary prints) changes no state.
DeviceEnd ==
    /\ mpc = "fetching"
    /\ pc \in {"done", "aborted"}
    /\ pc' = "idle"
    /\ UNCHANGED <<start, end, max_days, collection_start, ts, batch_count,
                   successful_batches, all_records, output, requests,
                   lastResp, lastData, sent>>
    /\ UNCHANGED <<device_list, attempted, device_eui, clock, callVars>>
    /\ mpc' = "loop"
    /\ position' = position + 1
    /\ \E wrote \in (IF pc = "done" /\ output # <<>> THEN BOOLEAN ELSE {FALSE}) :
          successful_collections' =
              IF wrote THEN successful_collections + 1
              ELSE successful_collections

\* The loop is through: return successful_collections.
MultiReturn ==
    /\ mpc = "loop"
    /\ position > Len(device_list)
    /\ mpc' = "returned"
    /\ UNCHANGED <<fetchVars, clock, device_eui, callVars, device_list,
                   position, successful_collections, attempted>>

\* The server of a multi-device run: bounds with and without endTS, and one
\* record of the device per batch.
MultiBounds ==
    {BoundsResponse(TRUE, IsoZ(0), IsoZ(20 * Day)),
     BoundsResponse(TRUE, IsoZ(0), TsMissing)}

MultiBatches == {<<RawRecord(IsoZ(15 * Day), device_eui, GoodPayload)>>}

MultiStart == mpc = "fetching" /\ StartOn(MultiBounds, {DefaultMaxDays})
MultiBatchFail == mpc = "fetching" /\ BatchFailStep
MultiBatchEmpty == mpc = "fetching" /\ BatchEmptyStep
MultiBatchRecords == mpc = "fetching" /\ BatchRecordsOn(MultiBatches)

MultiNext ==
    \/ DeviceBegin
    \/ MultiStart
    \/ MultiBatchFail
    \/ MultiBatchEmpty
    \/ MultiBatchRecords
    \/ DeviceEnd
    \/ MultiReturn

\* Every request is answered or times out, and the code between two
\* requests runs on.
MultiSpec == MultiInit /\ [][MultiNext]_vars /\ WF_vars(MultiNext)

\* =================================================================== claims
\* The keys the record loop reads from a received record.
HasAllKeys(rec) ==
    rec.Payload.present /\ rec.TimeStamp.shape # "missing" /\ rec.DevEUI # ""

\* ------------------------------------------------------------------------
\* C1: whatever the server answers (records, nothing, failures, the same
\* stale record for ever), a run issues at most 100 batch requests and then
\* ends.
C1_AtMostHundredRequestsThenEnds ==
    /\ [](requests <= 100)
    /\ <>(pc \in {"done", "aborted"})

\* A run that the budget alone ended: 100 requests, each answered with the
\* stale record, the cursor still before the end.
C1_BudgetSpent ==
    /\ pc = "done"
    /\ requests = 100
    /\ successful_batches = 100
    /\ ts.t < end.t

C3_UndecodedRecordsDropped ==
    /\ \A i \in 1..Len(all_records) :
          ParsePayload(info.type, all_records[i].payload,
                       info.EmptyDistance).kind = "list"
    /\ \A j \in 1..Len(output) :
          ParsePayload(info.type, output[j].payload,
                       info.EmptyDistance).kind = "list"

\* C3 amended: a received record with all its keys whose payload does not
\* decode is appended all the same, with its envelope and device fields and
\* no decoded field; and what is accumulated is what is returned.
C3_UndecodedRecordsKeptBare ==
    [][(pc = "fetch" /\ lastResp' = "ok") =>
        LET kept == SelectSeq(lastData', HasAllKeys)
            new == SubSeq(all_records', Len(all_records) + 1, Len(all_records'))
        IN  /\ Len(new) = Len(kept)
            /\ \A i \in 1..Len(kept) :
                  (~kept[i].Payload.hex \/ Len(kept[i].Payload.bytes) # 10) =>
                      new[i] = [timestamp |-> kept[i].TimeStamp,
                                device_eui |-> kept[i].DevEUI,
                                device_name |-> info.DevName,
                                device_type |-> info.type,
                                site_name |-> info.SiteName,
                                latitude |-> info.Lat,
                                longitude |-> info.Lon,
                                payload |-> kept[i].Payload]
            /\ pc' = "done" =>
                  \A i \in 1..Len(all_records') : \E j \in 1..Len(output') :
                      [output'[j] EXCEPT !.timestamp = all_records'[i].timestamp]
                          = all_records'[i]
      ]_vars

\* A returned frame with a row whose payload did not decode.
C3_BareRowReturned ==
    /\ pc = "done"
    /\ \E j \in 1..Len(output) :
          /\ output[j].payload = ShortPayload
          /\ "water_level" \notin DOMAIN output[j]

\* ------------------------------------------------------------------------
\* C4 as stated: no exception leaves fetch_full_history, whatever the bounds
\* and the batches are.
C4_NoExceptionLeavesTheRun == pc # "aborted"

\* ------------------------------------------------------------------------
\* C5: a batch request that fails as a whole moves the cursor by exactly 14
\* days and ends nothing by itself: the next request goes out unless the
\* cursor has reached the end or the batch budget is spent.
C5_FailureSkipsFourteenDays ==
    [][(pc = "fetch" /\ lastResp' = "fail") =>
        /\ ts' = [ts EXCEPT !.t = ts.t + 14 * 86400]
        /\ pc' = "fetch" <=> (ts'.t < end.t /\ batch_count < 100)
        /\ pc' = "fetch" => requests' = requests + 1
      ]_vars

\* The loop went on after a failed batch.
C5_WentOnAfterFailure ==
    /\ pc = "fetch"
    /\ lastResp = "fail"
    /\ requests >= 2

\* ------------------------------------------------------------------------
\* C6: an empty answer ends the loop at once: no further request is issued
\* in the run and the accumulated records are what they were.
C6_EmptyAnswerEndsLoop ==
    [][/\ (pc = "fetch" /\ lastResp' = "empty") =>
            /\ pc' # "fetch"
            /\ requests' = requests
            /\ batch_count' = batch_count
            /\ all_records' = all_records
       /\ lastResp = "empty" => requests' = requests
      ]_vars

\* A run with records that an empty answer ended.
C6_EndedByEmptyAnswer ==
    /\ pc = "done"
    /\ lastResp = "empty"
    /\ Len(all_records) >= 1
    /\ requests >= 2

C8_WindowStart ==
    (pc # "start" /\ start.aware = end.aware) =>
        /\ collection_start =
              IF max_days # 0 /\ end.t - max_days * 86400 > start.t
              THEN [end EXCEPT !.t = end.t - max_days * 86400]
              ELSE start
        /\ collection_start.t >= end.t =>
              /\ pc = "done"
              /\ output = <<>>
              /\ all_records = <<>>
              /\ requests = 0

\* A capped run over bounds whose start is not before their end.
C8_EmptyWindow ==
    /\ pc = "done"
    /\ max_days # 0
    /\ collection_start.t >= end.t
    /\ requests = 0

\* ------------------------------------------------------------------------
\* C9: the returned frame holds the accumulated records in ascending order
\* of their normalized timestamps.
C9_OutputSorted ==
    pc = "done" =>
        /\ Len(output) = Len(all_records)
        /\ \A i, j \in 1..Len(output) :
              i < j => output[i].timestamp.t <= output[j].timestamp.t

\* A frame of two rows that were accumulated in descending order.
C9_ReorderedOutput ==
    /\ pc = "done"
    /\ Len(output) = 2
    /\ all_records[1].timestamp.shape = "iso"
    /\ all_records[2].timestamp.shape = "iso"
    /\ all_records[1].timestamp.sec > all_records[2].timestamp.sec
    /\ output[1].timestamp.t < output[2].timestamp.t

\* ------------------------------------------------------------------------
\* C10: a record of a non-empty batch that raises is skipped alone: the
\* batch appends every record that carries all keys, in order, counts as
\* successful and moves the cursor.
C10_OnlyFailingRecordSkipped ==
    [][(pc = "fetch" /\ lastResp' = "ok") =>
        LET kept == SelectSeq(lastData', HasAllKeys)
            new == SubSeq(all_records', Len(all_records) + 1, Len(all_records'))
            last == lastData'[Len(lastData')].TimeStamp
        IN  /\ SubSeq(all_records', 1, Len(all_records)) = all_records
            /\ Len(new) = Len(kept)
            /\ \A i \in 1..Len(kept) :
                  /\ new[i].timestamp = kept[i].TimeStamp
                  /\ new[i].device_eui = kept[i].DevEUI
                  /\ new[i].payload = kept[i].Payload
            /\ successful_batches' = successful_batches + 1
            /\ last.shape \in {"missing", "number"} =>
                  ts'.t = ts.t + 14 * 86400
            /\ last.shape = "iso" => ts'.t = last.sec + 1
      ]_vars

\* A batch whose first record lacked a key and whose second was appended.
C10_SkippedThenAppended ==
    /\ lastResp = "ok"
    /\ Len(lastData) = 2
    /\ ~HasAllKeys(lastData[1])
    /\ HasAllKeys(lastData[2])
    /\ Len(all_records) >= 1
    /\ all_records[Len(all_records)].timestamp = lastData[2].TimeStamp
    /\ all_records[Len(all_records)].payload = lastData[2].Payload
    /\ successful_batches >= 1

\* ------------------------------------------------------------------------
\* C11: parse_timestamp_robust returns an instant for every string, the
\* empty and the malformed included, and never raises; when no stage takes
\* the string the instant is the reading of the wall clock.
C11_TotalOnStrings ==
    (fn = "parse_timestamp_robust" /\ ret.done
        /\ arg.shape \in {"empty", "garbage", "iso"}) =>
        /\ ~ret.raised
        /\ ret.value.t \in {arg.sec, clock}
        /\ arg.shape \in {"empty", "garbage"} => ret.value = Instant(clock, FALSE)
        /\ (arg.shape = "iso" /\ ~ret.lenient /\ arg.frac \in {1, 7}
                /\ arg.zone = "none") => ret.value = Instant(clock, FALSE)
        /\ (arg.shape = "iso" /\ arg.frac \in {0, 3, 6}) =>
                ret.value = Instant(arg.sec, arg.zone # "none")

\* A string no stage takes came back as the wall clock's reading.
C11_MalformedGivesNow ==
    /\ fn = "parse_timestamp_robust"
    /\ ret.done
    /\ arg.shape = "garbage"
    /\ ~ret.raised
    /\ ret.value = Instant(clock, FALSE)

\* ------------------------------------------------------------------------
\* C12 as stated: get_device_bounds_safe returns the window (now - 365 days,
\* now) on every failure of the bounds query, a body without usable startTS
\* or endTS included, so that the window it returns always has its start
\* before its end.
C12_FailureGivesDefaultWindow ==
    (fn = "get_device_bounds_safe" /\ ret.done) =>
        LET unusable == {"missing", "null", "number", "empty", "garbage"}
            failed == \/ ~arg.ok
                      \/ arg.startTS.shape \in unusable
                      \/ arg.endTS.shape \in unusable
        IN  /\ failed => /\ ret.start = Instant(clock - 365 * 86400, FALSE)
                         /\ ret.end = Instant(clock, FALSE)
            /\ ret.start.aware = ret.end.aware
            /\ ret.start.t < ret.end.t

\* ------------------------------------------------------------------------
\* C15: a HydroRanger payload that is not exactly 13 bytes long is never
\* decoded with the 13-byte layout: the decoder itself raises on it, and
\* parse_payload answers with its note (its error dict when the text is no
\* hex), never with a reading; the record assembled from it has no
\* HydroRanger field.
C15_HydroRangerWrongLength ==
    /\ (fn = "parseHydroRangerPayload" /\ ret.done
            /\ (~arg.vector.payload.hex \/ Len(arg.vector.payload.bytes) # 13)) =>
            ret.raised
    /\ (fn = "parse_payload" /\ ret.done /\ arg.device_type = "HydroRanger"
            /\ arg.empty_distance.form # "bad"
            /\ (~arg.vector.payload.hex \/ Len(arg.vector.payload.bytes) # 13)) =>
            /\ ret.kind = (IF arg.vector.payload.hex THEN "note" ELSE "error")
            /\ ret.fields = <<>>
    /\ (fn = "rec_out" /\ ret.done /\ device_eui = "eui2"
            /\ (~arg.vector.payload.hex \/ Len(arg.vector.payload.bytes) # 13)) =>
            /\ ~ret.raised
            /\ DOMAIN ret.rec_out =
                  {"timestamp", "device_eui", "device_name", "device_type",
                   "site_name", "latitude", "longitude", "payload"}

\* parse_payload answered a 14-byte HydroRanger payload with its note.
C15_LongPayloadNoted ==
    /\ fn = "parse_payload"
    /\ ret.done
    /\ arg.device_type = "HydroRanger"
    /\ Len(arg.vector.payload.bytes) = 14
    /\ ret.kind = "note"

\* ------------------------------------------------------------------------
\* C16 as stated: every Droplet payload of exactly 14 bytes decodes.
C16_FourteenBytesDecode ==
    (fn = "parseDROPLETdata" /\ ret.done /\ arg.payload.hex
        /\ Len(arg.payload.bytes) = 14) => ~ret.raised

\* C16 amended: the Droplet layout i16,i32,i16,i16,i16,i16,i16 is 16 bytes
\* long; every payload of exactly 16 bytes decodes to temp = raw/100,
\* pressure = raw/100, humidity = raw/100, battery = raw/10, rtcTemp =
\* raw/100, rainfall = raw*0.42 and status = raw (here in hundredths), and
\* every payload of another length, 14 bytes included, raises.
C16_SixteenBytesDecode ==
    (fn = "parseDROPLETdata" /\ ret.done) =>
        IF arg.payload.hex /\ Len(arg.payload.bytes) = 16
        THEN /\ ~ret.raised
             /\ arg.raw # <<>> =>
                  ret.fields = <<arg.raw[1], arg.raw[2], arg.raw[3],
                                 10 * arg.raw[4], arg.raw[5], 42 * arg.raw[6],
                                 arg.raw[7]>>
        ELSE ret.raised

\* A 16-byte payload with a negative pressure and a negative battery field
\* was decoded.
C16_SignedFieldsDecoded ==
    /\ fn = "parseDROPLETdata"
    /\ ret.done
    /\ arg.raw # <<>>
    /\ arg.raw[2] = -70000
    /\ arg.raw[4] = -5
    /\ ret.fields[2] = -70000
    /\ ret.fields[4] = -50

\* ------------------------------------------------------------------------
\* C17 as stated: 066b000182632710002a000000000000 decodes to temp 16.43,
\* pressure 993.39, humidity 100.00, battery 4.20, rtcTemp 0.00, rainfall
\* 0.00, status 0.
C17_ExampleWithPressure99339 ==
    (fn = "parseDROPLETdata" /\ ret.done /\ arg.payload = DropletExample) =>
        /\ ~ret.raised
        /\ ret.fields = <<1643, 99339, 10000, 420, 0, 0, 0>>

\* C17 amended: the pressure bytes 00018263 are 98915, so the payload
\* decodes to pressure 989.15; the other six values are as stated.
C17_ExampleWithPressure98915 ==
    (fn = "parseDROPLETdata" /\ ret.done /\ arg.payload = DropletExample) =>
        /\ ~ret.raised
        /\ ret.fields = <<1643, 98915, 10000, 420, 0, 0, 0>>

\* The example payload was decoded.
C17_ExampleDecoded ==
    /\ fn = "parseDROPLETdata"
    /\ ret.done
    /\ arg.payload = DropletExample
    /\ ~ret.raised

\* ------------------------------------------------------------------------
\* C18: for every 10-byte Echo payload the level is the reference distance
\* minus the raw distance when a reference distance is given, and the raw
\* distance when none is; 05bc00000ed805480000 with 1773 gives level 305
\* and battery 3.80.  The same holds through parse_payload, which takes the
\* catalogue's distance as an integer or as its decimal text.
C18_EchoLevel ==
    /\ (fn = "parseECHOdata" /\ ret.done /\ arg.vector.raw # <<>>) =>
            /\ ~ret.raised
            /\ ret.fields[1] = IF arg.emptyDist.given
                               THEN arg.emptyDist.v - arg.vector.raw[1]
                               ELSE arg.vector.raw[1]
            /\ (arg.vector.raw[1] = 1468 /\ arg.vector.raw[3] = 3800
                    /\ arg.emptyDist = Distance(1773)) =>
                    (ret.fields[1] = 305 /\ ret.fields[3] = 380)
    /\ (fn = "parse_payload" /\ ret.done /\ arg.device_type = "Echo"
            /\ arg.vector.raw # <<>> /\ arg.empty_distance.form # "bad") =>
            /\ ret.kind = "list"
            /\ ret.fields[1] = IF arg.empty_distance.form \in {"int", "text"}
                               THEN arg.empty_distance.v - arg.vector.raw[1]
                               ELSE arg.vector.raw[1]

\* The example payload gave level 305 under the reference distance 1773.
C18_ExampleLevel ==
    /\ fn = "parseECHOdata"
    /\ ret.done
    /\ arg.vector.payload = GoodPayload
    /\ arg.emptyDist = Distance(1773)
    /\ ret.fields[1] = 305
    /\ ret.fields[3] = 380

\* ------------------------------------------------------------------------
\* C19: for every 13-byte HydroRanger payload, a raw temperature of -777
\* makes temperature and humidity both None, whatever the raw humidity is;
\* any other raw temperature gives both as raw/100.
C19_SentinelBlanksBoth ==
    (fn = "parseHydroRangerPayload" /\ ret.done /\ arg.vector.raw # <<>>) =>
        /\ ~ret.raised
        /\ IF arg.vector.raw[5] = -777
           THEN ret.fields[5] = Null /\ ret.fields[6] = Null
           ELSE /\ ret.fields[5] = Val(arg.vector.raw[5])
                /\ ret.fields[6] = Val(arg.vector.raw[6])

\* A payload with the sentinel and a non-zero raw humidity was decoded.
C19_SentinelSeen ==
    /\ fn = "parseHydroRangerPayload"
    /\ ret.done
    /\ arg.vector.raw # <<>>
    /\ arg.vector.raw[5] = -777
    /\ arg.vector.raw[6] = 7776
    /\ ret.fields[6].null

\* ------------------------------------------------------------------------
\* C20: for every 13-byte HydroRanger payload under a reference distance,
\* levelAvg = ref - rawAvg, levelMax = ref - rawMin, levelMin = ref - rawMax
\* (so rawMin <= rawMax gives levelMin <= levelMax); without one the raw
\* avg, min and max pass through; and the assembled record carries levelMin
\* as water_level_min and levelMax as water_level_max.
C20_LevelsSwapped ==
    /\ (fn = "parseHydroRangerPayload" /\ ret.done /\ arg.vector.raw # <<>>) =>
            LET raw == arg.vector.raw
                ref == arg.emptyDist.v
            IN  /\ ~ret.raised
                /\ IF arg.emptyDist.given
                   THEN /\ ret.fields[2] = ref - raw[2]
                        /\ ret.fields[4] = ref - raw[3]
                        /\ ret.fields[3] = ref - raw[4]
                        /\ raw[3] <= raw[4] => ret.fields[3] <= ret.fields[4]
                   ELSE /\ ret.fields[2] = raw[2]
                        /\ ret.fields[3] = raw[3]
                        /\ ret.fields[4] = raw[4]
    /\ (fn = "rec_out" /\ ret.done /\ device_eui = "eui2"
            /\ arg.vector.raw # <<>>) =>
            /\ ~ret.raised
            /\ ret.rec_out.water_level_avg = 2236 - arg.vector.raw[2]
            /\ ret.rec_out.water_level_min = 2236 - arg.vector.raw[4]
            /\ ret.rec_out.water_level_max = 2236 - arg.vector.raw[3]

\* A record was assembled from a payload whose raw minimum is below its raw
\* maximum.
C20_SwappedInRecord ==
    /\ fn = "rec_out"
    /\ ret.done
    /\ device_eui = "eui2"
    /\ arg.vector.raw # <<>>
    /\ arg.vector.raw[3] = 2000
    /\ arg.vector.raw[4] = 2300
    /\ ret.rec_out.water_level_min = -64
    /\ ret.rec_out.water_level_max = 236


\* The devices of the list before the one the loop stands at.
TakenUp == SubSeq(device_list, 1, Len(attempted))

\* C13: in collect_multiple_devices no error of one device ends the run.
\* The devices taken up are always the front of device_list, in its order;
\* no exception leaves the function; a step that ends a device, failed or
\* not, moves the loop to the next one; and every run returns, having taken
\* up the whole list.
C13_NoDeviceErrorEndsRun ==
    /\ [](/\ mpc # "aborted"
          /\ Len(attempted) <= Len(device_list)
          /\ attempted = TakenUp
          /\ (mpc = "returned" => attempted = device_list))
    /\ [][(mpc = "fetching" /\ pc' = "idle") =>
              (mpc' = "loop" /\ position' = position + 1)]_vars
    /\ <>(mpc = "returned")

\* C13 witness: a run has returned after its first device was unknown, or
\* its fetch raised, and its second device was written.
C13_RunWentOnAfterFailure ==
    /\ mpc = "returned"
    /\ Len(device_list) = 2
    /\ attempted = device_list
    /\ successful_collections = 1
    /\ device_list[1] = "eui9"
    /\ device_eui = device_list[2]
    /\ pc = "idle"

\* C14: every request of a run carries 'type' exactly when the device is a
\* HydroRanger or a Theta, and then it is the device's kind; the bounds
\* request is out once the run has started, and both request kinds follow
\* the same rule.
C14_TypeExactlyForHydroRangerAndTheta ==
    mpc = "fetching" =>
       /\ \A r \in sent :
             /\ r.device = device_eui
             /\ r.type = (IF info.type \in {"HydroRanger", "Theta"}
                          THEN info.type ELSE Absent)
       /\ (pc # "start") => (\E r \in sent : r.endpoint = "bounds")
       /\ (requests > 0) => (\E r \in sent : r.endpoint = "fetch")

\* C14 witness: a Theta's run has sent both request kinds with its kind,
\* after an Echo's run was over.
C14_BothRequestKindsSent ==
    /\ mpc = "fetching"
    /\ info.type = "Theta"
    /\ attempted = <<"eui1", "eui3">>
    /\ \E r \in sent : r.endpoint = "bounds" /\ r.type = "Theta"
    /\ \E r \in sent : r.endpoint = "fetch" /\ r.type = "Theta"


\* The keys of a record without a reading.
EnvelopeKeys ==
    {"timestamp", "device_eui", "device_name", "device_type", "site_name",
     "latitude", "longitude", "payload"}

\* A payload of the claim's cases: no hex text; for a Theta a byte that is
\* no ASCII, or a text built from fewer or more than three tokens; for a
\* Droplet, Echo or Hygro fewer bytes than the layout takes.
Undecodable(device_type, vector) ==
    \/ ~vector.payload.hex
    \/ /\ device_type = "Theta"
       /\ \/ \E i \in 1..Len(vector.payload.bytes) : vector.payload.bytes[i] > 127
          \/ Len(vector.raw) # 3
    \/ device_type = "Droplet" /\ Len(vector.payload.bytes) < 16
    \/ device_type = "Echo" /\ Len(vector.payload.bytes) < 10
    \/ device_type = "Hygro" /\ Len(vector.payload.bytes) < 14

\* C21: parse_payload answers the error dict for every undecodable payload,
\* and the record assembled from such a payload carries no reading; a Theta
\* text of exactly three numbers is decoded.
C21_UndecodableGivesError ==
    /\ (fn = "parse_payload" /\ ret.done) =>
          /\ Undecodable(arg.device_type, arg.vector) => ret.kind = "error"
          /\ (arg.device_type = "Theta" /\ ~Undecodable("Theta", arg.vector))
                => ret.kind = "list"
    /\ (fn = "rec_out" /\ ret.done /\ Undecodable(info.type, arg.vector)) =>
          (~ret.raised /\ DOMAIN ret.rec_out = EnvelopeKeys)

\* C21 witness: a Theta text of four tokens was answered with the error
\* dict.
C21_FourTokensRefused ==
    /\ fn = "parse_payload"
    /\ ret.done
    /\ arg.device_type = "Theta"
    /\ arg.vector.payload.hex
    /\ Len(arg.vector.raw) = 4
    /\ Len(FindTokens(arg.vector.payload.bytes)) = 4
    /\ ret.kind = "error"


\* C22: a record that carries metadata is assembled with the literal its
\* metadata text was written from, or, when the metadata is no literal's
\* text, with the metadata as it came; the record is not dropped either way.
C22_MetadataParsedOrKeptRaw ==
    (fn = "rec_out" /\ ret.done /\ Truthy(arg.metadata.md)) =>
        /\ ~ret.raised
        /\ "metadata" \in DOMAIN ret.rec_out
        /\ ret.rec_out.metadata = (IF arg.metadata.raw # NoLiteral
                                   THEN arg.metadata.raw
                                   ELSE arg.metadata.md)

\* C22 witness: a record whose metadata is the text true, which is no
\* literal, was assembled with that text and with its reading.
C22_RawMetadataKept ==
    /\ fn = "rec_out"
    /\ ret.done
    /\ arg.metadata.md = MetadataText(<<116, 114, 117, 101>>)
    /\ ~ret.raised
    /\ ret.rec_out.metadata = MetadataText(<<116, 114, 117, 101>>)
    /\ "water_level" \in DOMAIN ret.rec_out


\* C23 as stated: the result of parse_timestamp_robust is that of the first
\* of the stages (a) strict, (b) fraction cut or padded to six digits,
\* (c) fraction stripped and offset kept, (d) fraction and offset stripped,
\* that takes the string: a result of (a), (b) or (c) on a string with a
\* zone is aware, a result of (d) is naive.
C23_FirstStageWinsOffsetKept ==
    (fn = "parse_timestamp_robust" /\ ret.done /\ ~ret.raised
        /\ arg.shape \in {"iso", "badfrac"}) =>
        LET a == StageStrict(arg, ret.lenient)
            b == StageFraction(arg)
            c == StageBaseZone(arg, ret.lenient)
            d == StageNaive(arg)
        IN  /\ a.hit => ret.value = Instant(arg.sec, arg.zone # "none")
            /\ (~a.hit /\ b.hit) => ret.value = Instant(arg.sec, TRUE)
            /\ (~a.hit /\ ~b.hit /\ c.hit) => ret.value = Instant(arg.sec, TRUE)
            /\ (~a.hit /\ ~b.hit /\ ~c.hit /\ d.hit)
                    => ret.value = Instant(arg.sec, FALSE)
            /\ ~(a.hit \/ b.hit \/ c.hit \/ d.hit)
                    => ret.value = Instant(clock, FALSE)


\* The handlers of the query API that were called.
Handlers ==
    {"health_check", "get_data_bounds", "get_device_data",
     "get_device_data_chunked"}

\* C24 as stated: the 404 outcomes reach the client as status 404: every
\* handler answers 404 'Database file not found' when the database file
\* does not exist, and GET /data-bounds answers 404 'No data found for this
\* device' when the table holds no record of the device.
C24_NotFoundReachesClient ==
    (fn \in Handlers /\ ret.done
        /\ (fn # "health_check" => arg.device_type \in TABLE_MAPPING)) =>
        /\ ~arg.db.exists =>
              (ret.status = 404 /\ ret.detail = "Database file not found")
        /\ (fn = "get_data_bounds" /\ arg.db.exists /\ arg.db.rows = 0) =>
              (ret.status = 404 /\ ret.detail = "No data found for this device")

\* C25 as stated: GET /data never returns more than 100000 records and GET
\* /data-chunked never more than 10000, whatever integer the client gives
\* as limit.
C25_LimitCapsRecords ==
    /\ (fn = "get_device_data" /\ ret.done) => ret.recordCount <= 100000
    /\ (fn = "get_device_data_chunked" /\ ret.done) => ret.recordCount <= 10000


\* C26: when the loop of fetch_full_history ends (its condition is false or
\* the break is taken), the cursor is at or after the end, or the last
\* answer was empty, or the batch counter is 100.
C26_LoopExitCondition ==
    [][(pc = "fetch" /\ pc' # "fetch" /\ Comparable(ts', end)) =>
          \/ ts'.t >= end.t
          \/ lastResp' = "empty"
          \/ batch_count' = 100]_vars

\* C26 witness: a run has returned after 100 batches, the last one answered
\* with records, with its cursor still before the end.
C26_EndedByCapBeforeEnd ==
    /\ pc = "done"
    /\ batch_count = 100
    /\ lastResp = "ok"
    /\ Comparable(ts, end)
    /\ ts.t < end.t
    /\ end.t - ts.t > 19 * Day


\* C27: in every state of a run the success counter is at most the batch
\* counter, which is at most 100 and equals the number of batch requests
\* sent so far; a failed request leaves the success counter alone, as an
\* empty answer does, and every answer with records adds one to it.
C27_CountersFollowRequests ==
    /\ [](/\ successful_batches <= batch_count
          /\ batch_count <= 100
          /\ batch_count = requests)
    /\ [][pc = "fetch" =>
            successful_batches' =
                (IF lastResp' = "ok" /\ lastData' # <<>>
                 THEN successful_batches + 1 ELSE successful_batches)]_vars

\* C27 witness: the 100 requests of a run are spent, some of them failed
\* and some answered with records none of which was kept.
C27_BudgetSpentOnFailuresToo ==
    /\ pc = "done"
    /\ requests = 100
    /\ batch_count = 100
    /\ successful_batches >= 2
    /\ successful_batches < 100
    /\ all_records = <<>>
    /\ lastResp = "ok"


\* C28: a window from collection_start to the end of less than one whole
\* day, a positive one of some hours included, ends the run with no batch
\* request and no record; a batch request is sent only over a window of at
\* least one whole day.
C28_SubDayWindowSendsNothing ==
    (pc # "start" /\ Comparable(start, end)) =>
        /\ end.t - collection_start.t < 86400 =>
              /\ pc = "done"
              /\ requests = 0
              /\ batch_count = 0
              /\ all_records = <<>>
              /\ output = <<>>
        /\ requests > 0 => end.t - collection_start.t >= 86400

\* C28 witness: a run over a window of twelve hours has returned without a
\* request.
C28_HalfDayWindow ==
    /\ pc = "done"
    /\ Comparable(start, end)
    /\ end.t - collection_start.t = 43200
    /\ requests = 0
    /\ output = <<>>


\* C29: a batch request that fails as a whole moves the cursor 14 days on
\* and leaves the accumulated records, the success counter and the window
\* as they are; the batch counter, which has counted the failed request,
\* moves only to count the next request.  The accumulated records are never
\* fewer after a step than before it, and a run that returns, returns as
\* many rows as it accumulated.
C29_FailureKeepsRecords ==
    [][/\ (pc = "fetch" /\ lastResp' = "fail") =>
             /\ ts' = [ts EXCEPT !.t = ts.t + 14 * 86400]
             /\ all_records' = all_records
             /\ successful_batches' = successful_batches
             /\ batch_count' \in {batch_count, batch_count + 1}
             /\ batch_count' = batch_count + 1 <=> pc' = "fetch"
             /\ <<start, end, collection_start, max_days>>'
                    = <<start, end, collection_start, max_days>>
       /\ Len(all_records') >= Len(all_records)
       /\ SubSeq(all_records', 1, Len(all_records)) = all_records
       /\ pc' = "done" => Len(output') = Len(all_records')]_vars

\* C29 witness: a run has returned the records of its first batch after its
\* last request failed.
C29_RecordsSurvivedFailure ==
    /\ pc = "done"
    /\ lastResp = "fail"
    /\ successful_batches >= 1
    /\ batch_count > successful_batches
    /\ all_records # <<>>
    /\ Len(output) = Len(all_records)


\* C30: every batch request goes out with a cursor strictly before the
\* end; once the cursor is at or after the end no request follows.
C30_RequestsOnlyBeforeEnd ==
    [][/\ requests' # requests =>
             /\ requests' = requests + 1
             /\ pc' = "fetch"
             /\ Comparable(ts', end')
             /\ ts'.t < end'.t
       /\ pc' = "fetch" => ts'.t < end'.t
       /\ (pc # "start" /\ Comparable(ts, end) /\ ts.t >= end.t) =>
             requests' = requests]_vars

\* C30 witness: a 14-day skip has taken the cursor past the end and the run
\* has returned without another request.
C30_SkipPassedEnd ==
    /\ pc = "done"
    /\ requests = 2
    /\ batch_count = 2
    /\ lastResp = "fail"
    /\ Comparable(ts, end)
    /\ ts.t >= end.t
    /\ ts.t - 14 * 86400 < end.t

====
